---------------------------- MODULE Spec2Model ----------------------------
(***************************************************************************)
(* Deduplication engine and long-term monitoring scheduler of the          *)
(* phishing-detection backend (backend/advanced_deduplication.py,          *)
(* backend/long_term_monitor.py, backend/worker.py, backend/main.py).      *)
(*                                                                         *)
(* Domain strings are sequences of one-character strings.  Similarities    *)
(* are exact rationals [num, den]; Python computes them in floating point, *)
(* which agrees with the rational value except at an exact tie with the    *)
(* threshold.                                                              *)
(***************************************************************************)
EXTENDS Integers, Sequences, FiniteSets, TLC

(***************************************************************************)
(* Generic helpers                                                         *)
(***************************************************************************)
Range(s) == {s[i] : i \in 1..Len(s)}

Max(a, b) == IF a >= b THEN a ELSE b

Min(a, b) == IF a <= b THEN a ELSE b

\* s[lo..hi-1] with Python's half-open convention on 1-based positions
Slice(s, lo, hi) == [i \in 1..(hi - lo) |-> s[lo + i - 1]]

(***************************************************************************)
(* str.lower(), str.strip(), str.split('.')                                *)
(***************************************************************************)
UpperToLower ==
  [c \in {"A","B","C","D","E","F","G","H","I","J","K","L","M",
          "N","O","P","Q","R","S","T","U","V","W","X","Y","Z"} |->
     CASE c = "A" -> "a" [] c = "B" -> "b" [] c = "C" -> "c" [] c = "D" -> "d"
       [] c = "E" -> "e" [] c = "F" -> "f" [] c = "G" -> "g" [] c = "H" -> "h"
       [] c = "I" -> "i" [] c = "J" -> "j" [] c = "K" -> "k" [] c = "L" -> "l"
       [] c = "M" -> "m" [] c = "N" -> "n" [] c = "O" -> "o" [] c = "P" -> "p"
       [] c = "Q" -> "q" [] c = "R" -> "r" [] c = "S" -> "s" [] c = "T" -> "t"
       [] c = "U" -> "u" [] c = "V" -> "v" [] c = "W" -> "w" [] c = "X" -> "x"
       [] c = "Y" -> "y" [] c = "Z" -> "z"]

Whitespace == {" ", "\t", "\n", "\r"}

Lower(s) == [i \in 1..Len(s) |->
               IF s[i] \in DOMAIN UpperToLower THEN UpperToLower[s[i]] ELSE s[i]]

Strip(s) ==
  LET keep == {i \in 1..Len(s) : s[i] \notin Whitespace}
      IMin(S) == CHOOSE x \in S : \A y \in S : x <= y
      IMax(S) == CHOOSE x \in S : \A y \in S : x >= y
  IN IF keep = {} THEN <<>> ELSE Slice(s, IMin(keep), IMax(keep) + 1)

\* domain.lower().strip()
Normalize(s) == Strip(Lower(s))

RECURSIVE SplitFrom(_, _, _)
\* the parts of s[i..] separated by ".", cur being the part read so far
SplitFrom(s, i, cur) ==
  IF i > Len(s) THEN <<cur>>
  ELSE IF s[i] = "." THEN <<cur>> \o SplitFrom(s, i + 1, <<>>)
  ELSE SplitFrom(s, i + 1, Append(cur, s[i]))

Split(s) == SplitFrom(s, 1, <<>>)

(***************************************************************************)
(* difflib.SequenceMatcher(None, a, b).ratio() (no junk: autojunk only     *)
(* applies to sequences of 200 or more elements)                           *)
(***************************************************************************)
RECURSIVE CommonLen(_, _, _, _, _, _)
\* length of the longest common prefix of a[i..ahi-1] and b[j..bhi-1]
CommonLen(a, b, i, j, ahi, bhi) ==
  IF i >= ahi \/ j >= bhi \/ a[i] # b[j] THEN 0
  ELSE 1 + CommonLen(a, b, i + 1, j + 1, ahi, bhi)

\* find_longest_match: the longest block, earliest in a, then earliest in b
FindLongestMatch(a, b, alo, ahi, blo, bhi) ==
  LET cands == {<<i, j, CommonLen(a, b, i, j, ahi, bhi)>> :
                   i \in alo..(ahi - 1), j \in blo..(bhi - 1)}
      better(x, y) == \/ x[3] > y[3]
                      \/ x[3] = y[3] /\ x[1] < y[1]
                      \/ x[3] = y[3] /\ x[1] = y[1] /\ x[2] <= y[2]
  IN IF cands = {} THEN <<alo, blo, 0>>
     ELSE CHOOSE x \in cands : \A y \in cands : better(x, y)

RECURSIVE MatchedChars(_, _, _, _, _, _)
\* total size of get_matching_blocks() within a[alo..ahi-1], b[blo..bhi-1]
MatchedChars(a, b, alo, ahi, blo, bhi) ==
  LET m == FindLongestMatch(a, b, alo, ahi, blo, bhi)
  IN IF m[3] = 0 THEN 0
     ELSE m[3]
          + (IF alo < m[1] /\ blo < m[2]
               THEN MatchedChars(a, b, alo, m[1], blo, m[2]) ELSE 0)
          + (IF m[1] + m[3] < ahi /\ m[2] + m[3] < bhi
               THEN MatchedChars(a, b, m[1] + m[3], ahi, m[2] + m[3], bhi) ELSE 0)

\* ratio() = 2.0 * matches / (len(a) + len(b)), 1.0 when both are empty
SequenceMatcherRatio(a, b) ==
  IF Len(a) + Len(b) = 0 THEN [num |-> 1, den |-> 1]
  ELSE [num |-> 2 * MatchedChars(a, b, 1, Len(a) + 1, 1, Len(b) + 1),
        den |-> Len(a) + Len(b)]

(***************************************************************************)
(* AdvancedDeduplicator: blended domain similarity                         *)
(***************************************************************************)
\* Jaccard index of the two character sets
_calculate_character_similarity(d1, d2) ==
  LET chars1 == Range(d1)
      chars2 == Range(d2)
      union  == Cardinality(chars1 \cup chars2)
  IN IF union = 0 THEN [num |-> 0, den |-> 1]
     ELSE [num |-> Cardinality(chars1 \cap chars2), den |-> union]

\* similarity of the labels immediately before the TLD
_calculate_subdomain_similarity(d1, d2) ==
  LET parts1 == Split(d1)
      parts2 == Split(d2)
      main1  == IF Len(parts1) >= 2 THEN parts1[Len(parts1) - 1] ELSE parts1[1]
      main2  == IF Len(parts2) >= 2 THEN parts2[Len(parts2) - 1] ELSE parts2[1]
  IN IF main1 = main2 THEN [num |-> 1, den |-> 1]
     ELSE SequenceMatcherRatio(main1, main2)

\* 0.5 * seq + 0.3 * char + 0.2 * subdomain, 1.0 for equal normalized domains
_calculate_domain_similarity(domain1, domain2) ==
  LET d1  == Normalize(domain1)
      d2  == Normalize(domain2)
      seq == SequenceMatcherRatio(d1, d2)
      chr == _calculate_character_similarity(d1, d2)
      sub == _calculate_subdomain_similarity(d1, d2)
  IN IF d1 = d2 THEN [num |-> 1, den |-> 1]
     ELSE [num |-> 5 * seq.num * chr.den * sub.den
                   + 3 * chr.num * seq.den * sub.den
                   + 2 * sub.num * seq.den * chr.den,
           den |-> 10 * seq.den * chr.den * sub.den]

\* self.similarity_threshold = 0.85, in hundredths
similarity_threshold == 85

\* similarity > self.similarity_threshold
AboveThreshold(sim) == 100 * sim.num > similarity_threshold * sim.den

(***************************************************************************)
(* The domain strings detections are drawn from                            *)
(***************************************************************************)
Pool ==
  << <<"e","a","y","p","a","l",".","c","o","m">>,
     <<"P","1","Y","P","A","L",".","C","O","M"," ">>,
     <<"1","a","y","p","a","l",".","c","o","m">>,
     <<"p","a","y","p","1","a","l",".","c","o","m">>,
     <<"1","a","y","p","a","l",".","m","l">> >>

DomainIds == 1..Len(Pool)

\* the pool domain that InputDomainClassifier.classify calls MALICIOUS (its
\* TLD is in suspicious_tlds); the others it calls CSE
ScreenedDomain == Len(Pool)

\* the pool domains that are generated variations of the protected domain
VariationIds == DomainIds \ {ScreenedDomain}

\* f as an explicit table (@@ builds the function value once, so a constant
\* table is not recomputed at every application)
Tabulate(f) == f @@ f

\* the fuzzy-link relation over the pool: similarity > threshold
SimLinked ==
  Tabulate([p \in DomainIds \X DomainIds |->
              AboveThreshold(_calculate_domain_similarity(Pool[p[1]], Pool[p[2]]))])


\* d.phishing_domain.lower().strip(), per pool entry
NormOf == Tabulate([i \in DomainIds |-> Normalize(Pool[i])])

(***************************************************************************)
(* State                                                                   *)
(***************************************************************************)
VARIABLES
  dets,       \* phishing_detections rows, dets[i] being the row with id i
  dedup,      \* outcome of the latest deduplicate_all_detections call
  now,        \* the clock, in hours
  scheds,     \* monitoring_schedules rows, scheds[i] being the row with id i
  changeLog,  \* content_change_logs rows, in order of insertion
  registered, \* the domain_variations rows with is_registered = True
  tasks,      \* per worker: the sweep or manual check it is running
  createLog,  \* result of the latest create_monitoring_schedule task
  call,       \* the latest call of a pure function: its arguments and result
  processor   \* the QueueProcessor, its worker threads and the submitted batches

\* what enrichment knows about each pool domain (risk score and the
\* populated columns), as analyze_and_store_phishing stores it
DomainFacts ==
  [i \in VariationIds |->
     [risk_score      |-> IF i = 3 THEN 80 ELSE 60,
      screenshot_path |-> i # 1,
      registrar       |-> i \in {2, 3},
      ip_address      |-> i # 4]]

\* the row analyze_and_store_phishing builds for pool domain d
NewDetection(d, cse, t) ==
  [phishing_domain   |-> d,
   cse_domain_id     |-> cse,
   is_active         |-> TRUE,
   detected_at       |-> t,
   last_checked      |-> t,
   risk_score        |-> DomainFacts[d].risk_score,
   screenshot_path   |-> DomainFacts[d].screenshot_path,
   evidence_pdf_path |-> FALSE,
   registrar         |-> DomainFacts[d].registrar,
   registrant        |-> DomainFacts[d].registrar,
   ip_address        |-> DomainFacts[d].ip_address,
   ssl_issuer        |-> FALSE,
   detection_metadata |-> [kind |-> "risk_result", fetch_failed |-> FALSE,
                          has_binary_hosting |-> FALSE,
                           duplicate_of_id |-> 0, deduplicated_at |-> -1]]

(***************************************************************************)
(* AdvancedDeduplicator: the three passes                                  *)
(***************************************************************************)
\* ids of the rows with is_active == True, in id order
ActiveIds(ds) == SelectSeq([i \in 1..Len(ds) |-> i], LAMBDA i : ds[i].is_active)

RECURSIVE ConcatAll(_)
ConcatAll(ss) == IF ss = <<>> THEN <<>> ELSE Head(ss) \o ConcatAll(Tail(ss))

\* groups of equal normalized domain, in order of first appearance, size > 1
_find_exact_duplicates(ds, snap) ==
  LET key(i)   == NormOf[ds[snap[i]].phishing_domain]
      firsts   == SelectSeq([i \in 1..Len(snap) |-> i],
                            LAMBDA i : \A j \in 1..(i - 1) : key(j) # key(i))
      groupOf(i) == SelectSeq(snap, LAMBDA x : NormOf[ds[x].phishing_domain] = key(i))
      all      == [k \in 1..Len(firsts) |-> groupOf(firsts[k])]
  IN SelectSeq(all, LAMBDA g : Len(g) > 1)

RECURSIVE PairsFrom(_, _, _, _)
\* the (det1, det2) pairs with similarity above the threshold, i < j, row-major
PairsFrom(ds, snap, i, j) ==
  IF i > Len(snap) THEN <<>>
  ELSE IF j > Len(snap) THEN PairsFrom(ds, snap, i + 1, i + 2)
  ELSE (IF SimLinked[<<ds[snap[i]].phishing_domain, ds[snap[j]].phishing_domain>>]
          THEN << <<snap[i], snap[j]>> >> ELSE <<>>)
       \o PairsFrom(ds, snap, i, j + 1)

SimilarPairs(ds, snap) == PairsFrom(ds, snap, 1, 2)

\* One iteration of the loop of _group_similar_pairs.  domain_to_group is
\* keyed by detection id (<<"id", n>>); the merge branch iterates over the
\* detection objects of the absorbed group and stores them as keys
\* (<<"det", n>>), so the id keys of the absorbed group keep naming the
\* deleted group.  domain_groups[group1] of a deleted group1 is a KeyError.
GroupStep(st, p) ==
  LET k1  == <<"id", p[1]>>
      k2  == <<"id", p[2]>>
      in1 == k1 \in DOMAIN st.domain_to_group
      in2 == k2 \in DOMAIN st.domain_to_group
      live(g) == g \in DOMAIN st.domain_groups
  IN IF in1 /\ in2 THEN
       LET group1 == st.domain_to_group[k1]
           group2 == st.domain_to_group[k2]
       IN IF group1 # group2 /\ live(group2) THEN
            IF ~live(group1) THEN [st EXCEPT !.raised = TRUE]
            ELSE [st EXCEPT
                    !.domain_groups =
                       [g \in DOMAIN st.domain_groups \ {group2} |->
                          IF g = group1
                            THEN st.domain_groups[group1] \o st.domain_groups[group2]
                            ELSE st.domain_groups[g]],
                    !.domain_to_group =
                       [k \in DOMAIN st.domain_to_group
                              \cup {<<"det", x>> : x \in Range(st.domain_groups[group2])} |->
                          IF k[1] = "det" /\ k[2] \in Range(st.domain_groups[group2])
                            THEN group1 ELSE st.domain_to_group[k]]]
          ELSE st
     ELSE IF in1 THEN
       LET group == st.domain_to_group[k1]
       IN IF live(group)
            THEN [st EXCEPT !.domain_groups[group] = Append(@, p[2]),
                            !.domain_to_group = [k \in DOMAIN st.domain_to_group \cup {k2} |->
                                                   IF k = k2 THEN group ELSE st.domain_to_group[k]]]
            ELSE st
     ELSE IF in2 THEN
       LET group == st.domain_to_group[k2]
       IN IF live(group)
            THEN [st EXCEPT !.domain_groups[group] = Append(@, p[1]),
                            !.domain_to_group = [k \in DOMAIN st.domain_to_group \cup {k1} |->
                                                   IF k = k1 THEN group ELSE st.domain_to_group[k]]]
            ELSE st
     ELSE [st EXCEPT
             !.domain_groups = [g \in DOMAIN st.domain_groups \cup {st.next_group_id} |->
                                  IF g = st.next_group_id THEN <<p[1], p[2]>>
                                  ELSE st.domain_groups[g]],
             !.domain_to_group = [k \in DOMAIN st.domain_to_group \cup {k1, k2} |->
                                    IF k \in {k1, k2} THEN st.next_group_id
                                    ELSE st.domain_to_group[k]],
             !.next_group_id = st.next_group_id + 1]

\* {} as a dict
EmptyMap == [x \in {} |-> 0]

RECURSIVE GroupLoop(_, _, _)
GroupLoop(pairs, k, st) ==
  IF k > Len(pairs) \/ st.raised THEN st
  ELSE GroupLoop(pairs, k + 1, GroupStep(st, pairs[k]))

\* list(domain_groups.values()): the live groups in order of creation
_group_similar_pairs(pairs) ==
  LET st == GroupLoop(pairs, 1, [domain_groups |-> EmptyMap, domain_to_group |-> EmptyMap,
                                 next_group_id |-> 0, raised |-> FALSE])
      gids == SelectSeq([g \in 1..st.next_group_id |-> g - 1],
                        LAMBDA g : g \in DOMAIN st.domain_groups)
  IN [raised |-> st.raised,
      groups |-> IF st.raised THEN <<>>
                 ELSE [k \in 1..Len(gids) |-> st.domain_groups[gids[k]]]]

_find_similar_domains(ds, snap) ==
  IF Len(snap) < 2 THEN [raised |-> FALSE, groups |-> <<>>]
  ELSE _group_similar_pairs(SimilarPairs(ds, snap))

\* ascending sequence of a set of small integers (iteration order of a
\* Python set of small non-negative ints)
RECURSIVE SortedSeq(_)
SortedSeq(S) ==
  IF S = {} THEN <<>>
  ELSE LET m == CHOOSE x \in S : \A y \in S : x <= y
       IN <<m>> \o SortedSeq(S \ {m})

\* DBSCAN(eps=0.5, min_samples=2): a cluster has at least two members
min_samples == 2

\* The feature-space pass (StandardScaler + DBSCAN over the whole snapshot)
\* is a library computation: it returns no cluster (all rows noise, or fewer
\* than two feature vectors), or clusters of snapshot rows.  The outcomes
\* drawn here are no cluster and one cluster of min_samples consecutive
\* snapshot rows, given as the set of snapshot positions in the cluster.
MLOutcomes(snap) ==
  {{}} \cup {i..(i + min_samples - 1) : i \in 1..(Len(snap) - min_samples + 1)}

\* list(clusters.values()) as lists of detection ids
_find_ml_similar_domains(snap, cluster) ==
  IF Len(snap) < 2 \/ cluster = {} THEN <<>>
  ELSE << [k \in 1..Cardinality(cluster) |-> snap[SortedSeq(cluster)[k]]] >>

(***************************************************************************)
(* AdvancedDeduplicator: merge of the groups and choice of the survivor    *)
(***************************************************************************)
\* keeps the first occurrence of every element
RECURSIVE Unique(_)
Unique(s) ==
  IF s = <<>> THEN <<>>
  ELSE LET r == Unique(SubSeq(s, 1, Len(s) - 1))
       IN IF s[Len(s)] \in Range(r) THEN r ELSE Append(r, s[Len(s)])

\* the groups that share a detection id with a group of S
Neighbours(groups, S) ==
  {g \in 1..Len(groups) : \E h \in S : Range(groups[g]) \cap Range(groups[h]) # {}}

RECURSIVE ConnectedGroups(_, _)
\* the while-loop over to_process: everything reachable from S
ConnectedGroups(groups, S) ==
  LET T == S \cup Neighbours(groups, S)
  IN IF T = S THEN S ELSE ConnectedGroups(groups, T)

RECURSIVE MergeFrom(_, _, _)
\* the for-loop of _merge_duplicate_groups from group index i on
MergeFrom(groups, i, processed) ==
  IF i > Len(groups) THEN <<>>
  ELSE IF i \in processed THEN MergeFrom(groups, i + 1, processed)
  ELSE LET connected == ConnectedGroups(groups, {i})
           order     == SortedSeq(connected)
           merged    == ConcatAll([k \in 1..Len(order) |-> groups[order[k]]])
       IN <<Unique(merged)>> \o MergeFrom(groups, i + 1, processed \cup connected)

\* a merge that only removes repeated members of each group
MergeWithoutClosure(groups) == [k \in 1..Len(groups) |-> Unique(groups[k])]

_merge_duplicate_groups(groups) == MergeFrom(groups, 1, {})

\* 30 * (risk_score + max(0, 30 - days_old) / 30 + 0.1 per populated field)
BestScore(d, t) ==
  LET days_old == (t - d.detected_at) \div 24
      flag(b)  == IF b THEN 3 ELSE 0
  IN 30 * d.risk_score + Max(0, 30 - days_old)
     + flag(d.screenshot_path) + flag(d.evidence_pdf_path)
     + flag(d.registrar) + flag(d.registrant)
     + flag(d.ip_address) + flag(d.ssl_issuer)

\* stable sort by score, descending: the first member with the highest score
_select_best_detection(ds, group, t) ==
  IF Len(group) = 1 THEN group[1]
  ELSE LET best == CHOOSE i \in 1..Len(group) :
                     /\ \A j \in 1..Len(group) :
                          BestScore(ds[group[j]], t) <= BestScore(ds[group[i]], t)
                     /\ \A j \in 1..(i - 1) :
                          BestScore(ds[group[j]], t) < BestScore(ds[group[i]], t)
       IN group[best]


(***************************************************************************)
(* deduplicate_all_detections                                              *)
(***************************************************************************)
\* a marking that deactivates the duplicate and records nothing
MarkInactiveOnly(d, best, t) == [d EXCEPT !.is_active = FALSE]

\* a marking that records the survivor and leaves the duplicate active
MarkDuplicateStillActive(d, best, t) ==
  [d EXCEPT !.detection_metadata = [@ EXCEPT !.duplicate_of_id = best,
                                             !.deduplicated_at = t]]

\* duplicate.is_active = False; metadata = {**metadata, 'duplicate_of_id': ...}
MarkDuplicate(d, best, t) ==
  [d EXCEPT !.is_active = FALSE,
            !.detection_metadata = [@ EXCEPT !.duplicate_of_id = best,
                                             !.deduplicated_at = t]]

RECURSIVE ProcessGroups(_, _, _, _)
\* Step 5: the loop over merged_groups from index k on.  acc carries the
\* session's rows and the two counters; {**None} raises TypeError.
ProcessGroups(merged, k, t, acc) ==
  IF k > Len(merged) \/ acc.raised THEN acc
  ELSE IF Len(merged[k]) <= 1 THEN ProcessGroups(merged, k + 1, t, acc)
  ELSE LET group == merged[k]
           best  == _select_best_detection(acc.rows, group, t)
           dups  == SelectSeq(group, LAMBDA x : x # best)
           bad   == \E i \in 1..Len(dups) :
                      acc.rows[dups[i]].detection_metadata.kind = "null"
       IN IF bad THEN [acc EXCEPT !.raised = TRUE]
          ELSE ProcessGroups(merged, k + 1, t,
                 [acc EXCEPT
                    !.rows = [i \in 1..Len(acc.rows) |->
                                IF i \in Range(dups)
                                  THEN MarkDuplicate(acc.rows[i], best, t)
                                  ELSE acc.rows[i]],
                    !.removed = @ + Len(dups),
                    !.kept = @ + 1])

\* a loop that commits after every group: what is stored when it raises
CommittedSoFar(ds, done) == done.rows

\* The rows stored when Step 5 raises: the exception leaves the function
\* before self.db.commit(), and the function has committed nothing earlier.
Uncommitted(ds, done) == ds

\* Steps 1 and 2 on the committed rows ds
Passes(ds) ==
  LET snap == ActiveIds(ds)
  IN [snap  |-> snap,
      exact |-> _find_exact_duplicates(ds, snap),
      fuzzy |-> _find_similar_domains(ds, snap)]

\* The whole call on the committed rows ds, the feature-space pass returning
\* cluster.  rows is what the call commits.
DeduplicateResult(ds, passes, cluster, t) ==
  LET snap   == passes.snap
      ml     == _find_ml_similar_domains(snap, cluster)
      groups == passes.exact \o passes.fuzzy.groups \o ml
      merged == _merge_duplicate_groups(groups)
      \* the feature-space pass returned a group that is inside no group of
      \* the exact and fuzzy passes
      others == passes.exact \o passes.fuzzy.groups
      added  == \E k \in 1..Len(ml) :
                  \A g \in 1..Len(others) : ~(Range(ml[k]) \subseteq Range(others[g]))
      done   == ProcessGroups(merged, 1, t,
                              [rows |-> ds, removed |-> 0, kept |-> 0, raised |-> FALSE])
      none   == [status |-> "completed", rows |-> ds, snapshot |-> snap,
                 fuzzy |-> <<>>, groups |-> <<>>, clusters |-> <<>>,
                 removed |-> 0, kept |-> 0, ml |-> FALSE]
  IN IF Len(snap) < 2 THEN none
     ELSE IF passes.fuzzy.raised THEN [none EXCEPT !.status = "raised"]
     ELSE IF done.raised
       THEN [none EXCEPT !.status = "raised", !.rows = Uncommitted(ds, done)]
     ELSE [status |-> "completed", rows |-> done.rows, snapshot |-> snap,
           fuzzy |-> passes.fuzzy.groups, groups |-> groups, clusters |-> merged,
           removed |-> done.removed, kept |-> done.kept, ml |-> added]

MaxDets == 5

MaxRuns == 2

\* one call of deduplicate_all_detections at time now
deduplicate_all_detections ==
  /\ dedup.calls < MaxRuns
  /\ LET passes == Passes(dets)
     IN \E cluster \in MLOutcomes(passes.snap) :
       LET r == DeduplicateResult(dets, passes, cluster, now)
       IN /\ dets' = r.rows
          /\ dedup' = [status   |-> r.status,
                       calls    |-> dedup.calls + 1,
                       runs     |-> IF r.status = "completed" THEN dedup.runs + 1 ELSE 0,
                       ml       |-> IF dedup.runs = 0 THEN r.ml ELSE (dedup.ml \/ r.ml),
                       snapshot |-> r.snapshot,
                       fuzzy    |-> r.fuzzy,
                       groups   |-> r.groups,
                       clusters |-> r.clusters,
                       removed  |-> r.removed,
                       kept     |-> r.kept]
  /\ UNCHANGED <<now, scheds, changeLog, registered, tasks, createLog, call, processor>>

NoDedup == [status |-> "none", calls |-> 0, runs |-> 0, ml |-> FALSE,
            snapshot |-> <<>>, fuzzy |-> <<>>, groups |-> <<>>,
            clusters |-> <<>>, removed |-> 0, kept |-> 0]

NoCall == [fn |-> "none"]

vars == <<dets, dedup, now, scheds, changeLog, registered, tasks, createLog, call,
          processor>>

\* the detections table holding any population of active rows over the pool
RECURSIVE Populations(_)
Populations(n) ==
  IF n = 0 THEN {<<>>}
  ELSE LET shorter == Populations(n - 1)
       IN shorter \cup {Append(p, NewDetection(d, 1, 0)) :
                          p \in {q \in shorter : Len(q) = n - 1}, d \in VariationIds}

(***************************************************************************)
(* LongTermMonitor: schedules                                              *)
(***************************************************************************)
DEFAULT_MONITORING_DURATION_DAYS == 90

MAX_MONITORING_DURATION_DAYS == 365

HIGH_RISK_MONITORING_INTERVAL == 6

MEDIUM_RISK_MONITORING_INTERVAL == 24

LOW_RISK_MONITORING_INTERVAL == 168

\* the id of the one cse_domains row; a schedule's cse_domain_id is nullable
TheCSE == 1

NoCSE == 0

\* duration_days = None
NoDuration == -1

_get_monitoring_interval(risk_level) ==
  CASE risk_level = "HIGH"   -> HIGH_RISK_MONITORING_INTERVAL
    [] risk_level = "MEDIUM" -> MEDIUM_RISK_MONITORING_INTERVAL
    [] risk_level = "LOW"    -> LOW_RISK_MONITORING_INTERVAL
    [] OTHER                 -> MEDIUM_RISK_MONITORING_INTERVAL

\* LongTermMonitor.create_monitoring_schedule at time t (is_active defaults
\* to True)
BuildSchedule(domain, cse_domain_id, duration_days, risk_level, t) ==
  LET duration == Min(IF duration_days = NoDuration
                        THEN DEFAULT_MONITORING_DURATION_DAYS ELSE duration_days,
                      MAX_MONITORING_DURATION_DAYS)
      interval_hours == _get_monitoring_interval(risk_level)
  IN [domain                    |-> domain,
      cse_domain_id             |-> cse_domain_id,
      monitoring_duration_days  |-> duration,
      end_date                  |-> t + 24 * duration,
      monitoring_interval_hours |-> interval_hours,
      next_check                |-> t + interval_hours,
      risk_level                |-> risk_level,
      is_active                 |-> TRUE]

\* a filter without the expiry condition
IsDueIgnoringEndDate(s, t) == s.is_active /\ s.next_check <= t

\* the filter of get_domains_for_monitoring on one row
IsDue(s, t) == s.is_active /\ s.next_check <= t /\ s.end_date > t

\* get_domains_for_monitoring: ids of the rows the query returns
get_domains_for_monitoring(rows, t) ==
  SelectSeq([i \in 1..Len(rows) |-> i], LAMBDA i : IsDue(rows[i], t))

\* a sweep that sets the flag of every row from its end date
CleanupSettingFlag(rows, t) ==
  [i \in 1..Len(rows) |-> [rows[i] EXCEPT !.is_active = (rows[i].end_date > t)]]

\* a sweep whose filter is end_date < now
CleanupStrictlyPast(rows, t) ==
  [i \in 1..Len(rows) |->
     IF rows[i].is_active /\ rows[i].end_date < t
       THEN [rows[i] EXCEPT !.is_active = FALSE] ELSE rows[i]]

\* the rows after cleanup_expired_monitoring at time t
cleanup_expired_rows(rows, t) ==
  [i \in 1..Len(rows) |->
     IF rows[i].is_active /\ rows[i].end_date <= t
       THEN [rows[i] EXCEPT !.is_active = FALSE] ELSE rows[i]]

(***************************************************************************)
(* Bounds and inputs of the pipeline model                                 *)
(***************************************************************************)
Workers == {"w1", "w2"}

\* the generated variations the scans and manual checks are about
ScanDomains == {1, 3}

MaxStored == 2

MaxScheds == 2

MaxCreates == 2

\* detections added by input screening
MaxScreened == 2

\* the requests create_monitoring_schedule is called with: domain,
\* cse_domain_id (NoCSE: the protected domain row is gone), duration_days,
\* risk_level
ScheduleRequests ==
  { <<1, TheCSE, 1, "HIGH">>,
    <<3, NoCSE, 1, "HIGH">>,
    <<3, TheCSE, NoDuration, "MEDIUM">> }

\* the request the creation task is run with
CreateRequests == { <<1, TheCSE, NoDuration, "HIGH">> }

MaxChanges == 2

MaxNow == 24

\* time advances by two intervals of the HIGH risk level
TickHours == 2 * HIGH_RISK_MONITORING_INTERVAL

IdleTask == [pc |-> "idle", kind |-> "none", selected |-> <<>>, idx |-> 0,
             prev |-> 0, results |-> <<>>, status |-> "none",
             monitored_domains |-> 0]

(***************************************************************************)
(* worker.py: detections                                                   *)
(***************************************************************************)
\* One iteration of the variation loop of continuous_scan for a variation
\* found registered: the is_registered flag is set, and the domain is
\* analysed and stored unless a detection row with that domain exists.
\* stored = FALSE is analyze_and_store_phishing returning False (an exception
\* inside it is caught there).
continuous_scan(d, stored) ==
  /\ d \notin registered
  /\ Len(dets) < MaxStored
  /\ registered' = registered \cup {d}
  /\ LET existing_detection == \E i \in 1..Len(dets) : dets[i].phishing_domain = d
     IN dets' = IF ~existing_detection /\ stored
                  THEN Append(dets, NewDetection(d, TheCSE, now)) ELSE dets
  /\ UNCHANGED <<dedup, now, scheds, changeLog, tasks, createLog, call, processor>>

\* POST /api/domains/bulk-with-screening with a list of n domains that the
\* classifier calls MALICIOUS (confidence 0.85 for a suspicious TLD): one
\* detection row each, without looking for an existing row; the columns not
\* given are NULL (detection_metadata) or their defaults
ScreenedDetection(d, t) ==
  [phishing_domain   |-> d,
   cse_domain_id     |-> NoCSE,
   is_active         |-> TRUE,
   detected_at       |-> t,
   last_checked      |-> t,
   risk_score        |-> 85,
   screenshot_path   |-> FALSE,
   evidence_pdf_path |-> FALSE,
   registrar         |-> FALSE,
   registrant        |-> FALSE,
   ip_address        |-> FALSE,
   ssl_issuer        |-> FALSE,
   detection_metadata |-> [kind |-> "null", fetch_failed |-> FALSE,
                          has_binary_hosting |-> FALSE,
                           duplicate_of_id |-> 0, deduplicated_at |-> -1]]

ScreenedRows(ds) ==
  {i \in 1..Len(ds) : ds[i].phishing_domain = ScreenedDomain}

bulk_add_with_screening(n) ==
  /\ Cardinality(ScreenedRows(dets)) + n <= MaxScreened
  /\ dets' = dets \o [k \in 1..n |-> ScreenedDetection(ScreenedDomain, now)]
  /\ UNCHANGED <<dedup, now, scheds, changeLog, registered, tasks, createLog, call, processor>>

\* check_single_domain for a registered domain whose best match clears 30:
\* analyze_and_store_phishing is called without looking for an existing row
check_single_domain(d, stored) ==
  /\ Len(dets) < MaxStored
  /\ dets' = IF stored THEN Append(dets, NewDetection(d, TheCSE, now)) ELSE dets
  /\ UNCHANGED <<dedup, now, scheds, changeLog, registered, tasks, createLog, call, processor>>

(***************************************************************************)
(* LongTermMonitor.monitor_domain, in two steps: the reads up to the        *)
(* accessibility check, then the analysis, the change detection and the    *)
(* commit.  The schedule object comes from another session (closed by      *)
(* get_domains_for_monitoring, or the request session of the API that is   *)
(* never committed): assignments to it are not part of what db.commit()    *)
(* of monitor_domain writes.                                               *)
(***************************************************************************)
CurrentSid(w) == tasks[w].selected[tasks[w].idx]

\* a caller whose loop is left by an error result
ReturnedLeavingLoop(w, res) ==
  IF res.status = "error"
    THEN [IdleTask EXCEPT !.pc = "done", !.kind = tasks[w].kind, !.status = "failed"]
    ELSE [tasks[w] EXCEPT !.pc = "loop", !.idx = @ + 1, !.prev = 0,
                          !.results = Append(@, res)]

\* what the caller does with the dict monitor_domain returned
Returned(w, res) ==
  [tasks[w] EXCEPT !.pc = "loop", !.idx = @ + 1, !.prev = 0,
                   !.results = Append(@, res)]

CheckResult(sid, status) == [sid |-> sid, status |-> status]

\* ids of the detection rows previous_detection may be (.first() of an
\* unordered query), {0} when there is none
PreviousDetections(domain) ==
  LET m == {i \in 1..Len(dets) : dets[i].phishing_domain = domain}
  IN IF m = {} THEN {0} ELSE m

\* raised: an exception before the accessibility check returns
\* accessible: quick_check_accessibility
MonitorBegin(w, raised, accessible) ==
  /\ tasks[w].pc = "loop"
  /\ tasks[w].idx <= Len(tasks[w].selected)
  /\ Len(changeLog) + 2 <= MaxChanges
  /\ LET sid      == CurrentSid(w)
         schedule == scheds[sid]
     IN \/ /\ raised \/ schedule.cse_domain_id = NoCSE
           /\ tasks' = [tasks EXCEPT ![w] =
                          Returned(w, CheckResult(sid, "error"))]
        \/ /\ ~raised /\ schedule.cse_domain_id # NoCSE /\ ~accessible
           /\ tasks' = [tasks EXCEPT ![w] =
                          Returned(w, CheckResult(sid, "inaccessible"))]
        \/ /\ ~raised /\ schedule.cse_domain_id # NoCSE /\ accessible
           /\ \E prev \in PreviousDetections(schedule.domain) :
                tasks' = [tasks EXCEPT ![w].pc = "check", ![w].prev = prev]
  /\ UNCHANGED <<dets, dedup, now, scheds, changeLog, registered, createLog, call, processor>>

\* detection_metadata never holds a 'content_hash' key: risk_result and the
\* content analysis have none
PreviousContentHash(meta) == "None"

\* _detect_content_changes: nothing without a previous hash
_detect_content_changes(domain, prev) ==
  IF prev # 0 /\ PreviousContentHash(dets[prev].detection_metadata) # "None"
    THEN << [domain |-> domain, change_type |-> "content_change", detection_id |-> prev] >>
    ELSE <<>>

\* _detect_binary_hosting_changes: previous_detection None raises inside the
\* try and yields no change
_detect_binary_hosting_changes(domain, prev, current_binary) ==
  IF prev = 0 THEN <<>>
  ELSE LET meta == dets[prev].detection_metadata
           previous_binary == IF meta.kind = "null" THEN FALSE
                              ELSE meta.has_binary_hosting
       IN IF current_binary /\ ~previous_binary
            THEN << [domain |-> domain, change_type |-> "binary_hosting",
                     detection_id |-> prev] >>
            ELSE <<>>

\* _detect_lookalike_content_changes: similar is visual_similarity > 80 of
\* two screenshots that could be captured
_detect_lookalike_content_changes(domain, similar) ==
  IF similar
    THEN << [domain |-> domain, change_type |-> "lookalike_content", detection_id |-> 0] >>
    ELSE <<>>

\* detector._analyze_content: a failed fetch returns the initial result dict
AnalysisResult(fetch_failed, binary) ==
  [kind |-> "content_analysis",
   fetch_failed |-> fetch_failed,
   has_binary_hosting |-> IF fetch_failed THEN FALSE ELSE binary,
   duplicate_of_id |-> 0, deduplicated_at |-> -1]

\* fetch_failed: the content fetch failed or timed out
\* binary: the fetched page hosts binaries; similar: lookalike similarity > 80
\* raised: an exception after the accessibility check
MonitorFinish(w, fetch_failed, binary, similar, raised) ==
  /\ tasks[w].pc = "check"
  /\ LET sid      == CurrentSid(w)
         schedule == scheds[sid]
         prev     == tasks[w].prev
         current_analysis == AnalysisResult(fetch_failed, binary)
         changes  == _detect_content_changes(schedule.domain, prev)
                     \o _detect_binary_hosting_changes(schedule.domain, prev,
                                                       current_analysis.has_binary_hosting)
                     \o _detect_lookalike_content_changes(schedule.domain, similar)
         next     == now + schedule.monitoring_interval_hours
         \* _update_detection_record adds a row without risk_score (NOT NULL):
         \* the commit raises IntegrityError
         failed   == raised \/ (changes # <<>> /\ prev = 0)
     IN IF failed
          THEN /\ tasks' = [tasks EXCEPT ![w] =
                              Returned(w, CheckResult(sid, "error"))]
               /\ UNCHANGED <<dets, changeLog>>
          ELSE /\ tasks' = [tasks EXCEPT ![w] =
                              Returned(w, CheckResult(sid, "success"))]
               /\ changeLog' = changeLog \o changes
               /\ dets' = IF changes # <<>>
                            THEN [dets EXCEPT ![prev].last_checked = now,
                                              ![prev].detection_metadata = current_analysis]
                            ELSE dets
  /\ UNCHANGED <<dedup, now, scheds, registered, createLog, call, processor>>

(***************************************************************************)
(* worker.py / main.py: sweeps, manual checks, schedule maintenance        *)
(***************************************************************************)
Startable(w) == tasks[w].pc \in {"idle", "done"}

\* long_term_monitoring_cycle up to the loop; raised: the selection raises
\* and the outer handler returns 'failed'
SweepStart(w, raised) ==
  /\ Startable(w)
  /\ LET schedules == get_domains_for_monitoring(scheds, now)
     IN tasks' = [tasks EXCEPT ![w] =
          IF raised THEN [IdleTask EXCEPT !.pc = "done", !.kind = "sweep",
                                          !.status = "failed"]
          ELSE IF schedules = <<>>
            THEN [IdleTask EXCEPT !.pc = "done", !.kind = "sweep",
                                  !.status = "completed"]
          ELSE [IdleTask EXCEPT !.pc = "loop", !.kind = "sweep",
                                !.selected = schedules, !.idx = 1]]
  /\ UNCHANGED <<dets, dedup, now, scheds, changeLog, registered, createLog, call, processor>>

\* trigger_manual_monitoring_check up to the call of monitor_domain
TriggerStart(w, domain) ==
  /\ Startable(w)
  /\ LET active == {i \in 1..Len(scheds) :
                      scheds[i].domain = domain /\ scheds[i].is_active}
     IN IF active = {}
          THEN tasks' = [tasks EXCEPT ![w] =
                 [IdleTask EXCEPT !.pc = "done", !.kind = "manual",
                                  !.status = "http_error"]]
          ELSE \E sid \in active :
                 tasks' = [tasks EXCEPT ![w] =
                   [IdleTask EXCEPT !.pc = "loop", !.kind = "manual",
                                    !.selected = <<sid>>, !.idx = 1]]
  /\ UNCHANGED <<dets, dedup, now, scheds, changeLog, registered, createLog, call, processor>>

\* the loop of long_term_monitoring_cycle is exhausted and the task returns
\* its summary; the API handler returns what monitor_domain returned
TaskReturn(w) ==
  /\ tasks[w].pc = "loop"
  /\ tasks[w].idx > Len(tasks[w].selected)
  /\ tasks' = [tasks EXCEPT ![w] =
       [IdleTask EXCEPT !.pc = "done", !.kind = tasks[w].kind,
                        !.status = IF tasks[w].kind = "sweep" THEN "completed"
                                   ELSE tasks[w].results[1].status,
                        !.monitored_domains = Len(tasks[w].selected)]]
  /\ UNCHANGED <<dets, dedup, now, scheds, changeLog, registered, createLog, call, processor>>

cleanup_expired_monitoring ==
  /\ scheds' = cleanup_expired_rows(scheds, now)
  /\ UNCHANGED <<dets, dedup, now, changeLog, registered, tasks, createLog, call, processor>>

\* DELETE /api/monitoring/schedules/{schedule_id}
deactivate_monitoring_schedule(schedule_id) ==
  /\ schedule_id \in 1..Len(scheds)
  /\ scheds' = [scheds EXCEPT ![schedule_id].is_active = FALSE]
  /\ UNCHANGED <<dets, dedup, now, changeLog, registered, tasks, createLog, call, processor>>

\* a worker module that binds and_
AndImportedFromSqlalchemy == TRUE

\* worker.py never binds and_ (imports at lines 1-23 and 59-60): evaluating
\* the filter at line 712 raises NameError inside the try, and the task
\* returns 'failed' without querying or adding anything
AndImported == FALSE

\* n concurrent runs of the task create_monitoring_schedule of worker.py
\* for one request, on different workers and overlapping so that every
\* query for an existing active schedule is evaluated before any insert is
\* committed; a single run is the case of one task.
create_monitoring_schedule(req, n) ==
  /\ Len(scheds) <= MaxScheds
  /\ LET existing == \E i \in 1..Len(scheds) :
                        scheds[i].domain = req[1] /\ scheds[i].is_active
         status   == IF ~AndImported THEN "failed"
                     ELSE IF existing THEN "already_monitored" ELSE "created"
         schedule == BuildSchedule(req[1], req[2], req[3], req[4], now)
     IN /\ createLog' = [k \in 1..n |-> [domain |-> req[1], status |-> status]]
        /\ scheds' = IF status = "created"
                       THEN scheds \o [k \in 1..n |-> schedule] ELSE scheds
  /\ UNCHANGED <<dets, dedup, now, changeLog, registered, tasks, call, processor>>

Tick ==
  /\ now + TickHours <= MaxNow
  /\ now' = now + TickHours
  /\ UNCHANGED <<dets, dedup, scheds, changeLog, registered, tasks, createLog, call, processor>>

(***************************************************************************)
(* queue_processor.py: the job queue, its worker threads and the batches   *)
(* handed to Celery.  Job ids stand for the uuid4 strings, in the order of *)
(* creation.  clear_completed_jobs is not part of the model.               *)
(***************************************************************************)
\* at most this many jobs are added
MaxJobs == 2

max_workers == 3

batch_size == 10

\* the priorities requests give: 1 = high, 2 = medium
Priorities == {1, 2}

\* a job as add_domain_job builds it; added_running records whether queue
\* processing was running when the job was added
ProcessingJob(priority, running) ==
  [status |-> "pending", priority |-> priority, added_running |-> running]

QueueThreads == 1..max_workers

\* no thread in this slot: not started yet, or returned from its loop
NoThread == [pc |-> "off", job_batch |-> <<>>]

\* the QueueProcessor after __init__
NewProcessor ==
  [jobs       |-> <<>>,
   job_queue  |-> {},
   is_running |-> FALSE,
   threads    |-> [t \in QueueThreads |-> NoThread],
   submitted  |-> {}]

\* the entry PriorityQueue.get returns: the smallest (priority, job_id)
FirstInQueue(q) ==
  CHOOSE e \in q : \A o \in q : e[1] < o[1] \/ (e[1] = o[1] /\ e[2] <= o[2])

\* what process_domain_batch finds on its first argument.  The task is
\* registered with bind=True, so Celery calls it with the task instance for
\* the parameter named self; lock and jobs are attributes of the
\* QueueProcessor, the self of the enclosing method.
TaskInstanceAttributes == {"app", "name", "request"}

\* the body of process_domain_batch run with an object having the attributes
\* self_attributes as self: the jobs afterwards and the list returned.
\* analysed[j] is whether analysis and feed lookup of job j return.
RunBatch(self_attributes, jobs, job_ids, analysed) ==
  IF job_ids # <<>> /\ ~({"lock", "jobs"} \subseteq self_attributes)
    THEN \* AttributeError in the first loop, caught by the outer except
         [jobs |-> jobs, results |-> <<>>]
    ELSE LET known == SelectSeq(job_ids, LAMBDA j : j \in DOMAIN jobs)
             outcome(j) == IF analysed[j] THEN "completed" ELSE "failed"
         IN [jobs    |-> [j \in DOMAIN jobs |->
                            IF j \in Range(known)
                              THEN [jobs[j] EXCEPT !.status = outcome(j)]
                              ELSE jobs[j]],
             results |-> [k \in 1..Len(known) |->
                            [job_id |-> known[k], status |-> outcome(known[k])]]]

QueueOnly ==
  UNCHANGED <<dets, dedup, now, scheds, changeLog, registered, tasks, createLog, call>>

add_domain_job(priority) ==
  /\ Len(processor.jobs) < MaxJobs
  /\ LET job_id == Len(processor.jobs) + 1
     IN processor' =
          [processor EXCEPT
             !.jobs = Append(@, ProcessingJob(priority, processor.is_running)),
             !.job_queue = @ \cup {<<priority, job_id>>}]
  /\ QueueOnly

\* start_processing when processing is not running (otherwise it returns at
\* once).  The threads of an earlier run have all returned: a start that
\* overlaps with threads stop_processing gave up joining is left out.
start_processing ==
  /\ ~processor.is_running
  /\ \A t \in QueueThreads : processor.threads[t].pc = "off"
  /\ processor' =
       [processor EXCEPT
          !.is_running = TRUE,
          !.threads = [t \in QueueThreads |-> [pc |-> "loop", job_batch |-> <<>>]]]
  /\ QueueOnly

\* stop_processing when processing is running; the threads return when they
\* test is_running next
stop_processing ==
  /\ processor.is_running
  /\ processor' = [processor EXCEPT !.is_running = FALSE]
  /\ QueueOnly

\* _processing_worker: the test of the while loop
WorkerLoop(t) ==
  /\ processor.threads[t].pc = "loop"
  /\ processor' =
       [processor EXCEPT
          !.threads[t] = IF processor.is_running
                           THEN [pc |-> "collect", job_batch |-> <<>>]
                           ELSE NoThread]
  /\ QueueOnly

\* _processing_worker: one pass of the for loop that fills job_batch, or
\* its end (batch_size entries taken, or queue.Empty) with the test of
\* job_batch that follows
WorkerGet(t) ==
  /\ processor.threads[t].pc = "collect"
  /\ LET job_batch == processor.threads[t].job_batch
         entry     == FirstInQueue(processor.job_queue)
     IN processor' =
          IF Len(job_batch) < batch_size /\ processor.job_queue # {}
            THEN [processor EXCEPT
                    !.job_queue = @ \ {entry},
                    !.threads[t].job_batch = Append(@, entry[2])]
            ELSE [processor EXCEPT
                    !.threads[t].pc = IF job_batch = <<>> THEN "loop" ELSE "submit"]
  /\ QueueOnly

\* _processing_worker: process_domain_batch.delay(job_batch).  delivered is
\* whether the message reaches the broker; if delay raises, the jobs of the
\* batch are marked failed.
WorkerSubmit(t, delivered) ==
  /\ processor.threads[t].pc = "submit"
  /\ LET job_batch == processor.threads[t].job_batch
     IN processor' =
          IF delivered
            THEN [processor EXCEPT
                    !.submitted = @ \cup {job_batch},
                    !.threads[t] = [pc |-> "loop", job_batch |-> <<>>]]
            ELSE [processor EXCEPT
                    !.jobs = [j \in DOMAIN @ |->
                                IF j \in Range(job_batch)
                                  THEN [@[j] EXCEPT !.status = "failed"]
                                  ELSE @[j]],
                    !.threads[t] = [pc |-> "loop", job_batch |-> <<>>]]
  /\ QueueOnly

\* a Celery worker runs the task for a submitted batch
process_domain_batch(job_ids, analysed) ==
  /\ job_ids \in processor.submitted
  /\ processor' =
       [processor EXCEPT
          !.jobs = RunBatch(TaskInstanceAttributes, @, job_ids, analysed).jobs,
          !.submitted = @ \ {job_ids}]
  /\ QueueOnly

InitDedup ==
  /\ dets \in Populations(MaxDets)
  /\ dedup = NoDedup
  /\ now = 0
  /\ scheds = <<>>
  /\ changeLog = <<>>
  /\ registered = {}
  /\ tasks = [w \in Workers |-> IdleTask]
  /\ createLog = <<>>
  /\ call = NoCall
  /\ processor = NewProcessor

NextDedup == deduplicate_all_detections

SpecDedup == InitDedup /\ [][NextDedup]_vars

(***************************************************************************)
(* The monitoring scheduler: sweeps and manual checks on two workers,      *)
(* expiry, deactivation and creation of schedules                          *)
(***************************************************************************)
\* the process that serves POST /api/monitoring/trigger-check; the other
\* worker runs sweeps only, this one a sweep or a manual check
ApiWorker == "w2"

AtMostOneActivePerDomain(rows) ==
  \A i, j \in 1..Len(rows) :
    i < j /\ rows[i].is_active /\ rows[j].is_active
      => rows[i].domain # rows[j].domain

\* rows of monitoring_schedules as LongTermMonitor.create_monitoring_schedule
\* builds them, at time 0
ScheduleRows ==
  {BuildSchedule(r[1], r[2], r[3], r[4], 0) : r \in ScheduleRequests}

RECURSIVE SchedulePopulations(_)
SchedulePopulations(n) ==
  IF n = 0 THEN {<<>>}
  ELSE LET shorter == SchedulePopulations(n - 1)
       IN shorter \cup {Append(p, r) : p \in {q \in shorter : Len(q) = n - 1},
                                        r \in ScheduleRows}

\* the detections table when monitoring starts: the row the scan stored for
\* the first domain, none for the other
MonitoredDetections == {<<NewDetection(1, TheCSE, 0)>>}

Init ==
  /\ dets \in MonitoredDetections
  /\ dedup = NoDedup
  /\ now = 0
  /\ scheds \in {p \in SchedulePopulations(MaxScheds) : AtMostOneActivePerDomain(p)}
  /\ changeLog = <<>>
  /\ registered = {}
  /\ tasks = [w \in Workers |-> IdleTask]
  /\ createLog = <<>>
  /\ call = NoCall
  /\ processor = NewProcessor

Next ==
  \/ Tick
  \/ \E w \in Workers, raised \in BOOLEAN : SweepStart(w, raised)
  \/ \E d \in ScanDomains : TriggerStart(ApiWorker, d)
  \/ \E w \in Workers, raised, accessible \in BOOLEAN :
       MonitorBegin(w, raised, accessible)
  \/ \E w \in Workers, fetch_failed, binary, similar, raised \in BOOLEAN :
       MonitorFinish(w, fetch_failed, binary, similar, raised)
  \/ \E w \in Workers : TaskReturn(w)
  \/ cleanup_expired_monitoring
  \/ \E schedule_id \in 1..Len(scheds) : deactivate_monitoring_schedule(schedule_id)
  \/ \E req \in CreateRequests, n \in {1, MaxCreates} :
       create_monitoring_schedule(req, n)

Spec == Init /\ [][Next]_vars

(***************************************************************************)
(* The detections table: scans, manual checks, deduplication runs and the  *)
(* monitoring sweep of one worker                                          *)
(***************************************************************************)
SweepWorker == "w1"

InitDetections ==
  /\ dets = <<>>
  /\ dedup = NoDedup
  /\ now = 0
  /\ scheds = << BuildSchedule(1, TheCSE, 1, "HIGH", 0) >>
  /\ changeLog = <<>>
  /\ registered = {}
  /\ tasks = [w \in Workers |-> IdleTask]
  /\ createLog = <<>>
  /\ call = NoCall
  /\ processor = NewProcessor

NextDetections ==
  \/ Tick
  \/ \E d \in ScanDomains, stored \in BOOLEAN : continuous_scan(d, stored)
  \/ \E d \in ScanDomains, stored \in BOOLEAN : check_single_domain(d, stored)
  \/ deduplicate_all_detections
  \/ \E raised \in BOOLEAN : SweepStart(SweepWorker, raised)
  \/ \E raised, accessible \in BOOLEAN :
       MonitorBegin(SweepWorker, raised, accessible)
  \/ \E fetch_failed, binary, similar, raised \in BOOLEAN :
       MonitorFinish(SweepWorker, fetch_failed, binary, similar, raised)
  \/ TaskReturn(SweepWorker)

SpecDetections == InitDetections /\ [][NextDetections]_vars

(***************************************************************************)
(* Deduplication runs with detections arriving between them: scans, manual *)
(* checks and input screening store detections, nothing else writes them   *)
(***************************************************************************)
NextArrivals ==
  \/ \E d \in ScanDomains, stored \in BOOLEAN : continuous_scan(d, stored)
  \/ \E d \in ScanDomains, stored \in BOOLEAN : check_single_domain(d, stored)
  \/ \E n \in {1, MaxScreened} : bulk_add_with_screening(n)
  \/ deduplicate_all_detections

\* an empty detections table, no schedule, no run made
InitArrivals ==
  /\ dets = <<>>
  /\ dedup = NoDedup
  /\ now = 0
  /\ scheds = <<>>
  /\ changeLog = <<>>
  /\ registered = {}
  /\ tasks = [w \in Workers |-> IdleTask]
  /\ createLog = <<>>
  /\ call = NoCall
  /\ processor = NewProcessor

SpecArrivals == InitArrivals /\ [][NextArrivals]_vars

(***************************************************************************)
(* Properties of the deduplication run (SpecDedup)                         *)
(***************************************************************************)
Members(groups) == UNION {Range(groups[k]) : k \in 1..Len(groups)}

ClusterOf(S) == {k \in 1..Len(dedup.clusters) : Range(dedup.clusters[k]) \cap S # {}}

C2_Idempotent ==
  (dedup.runs >= 2 /\ ~dedup.ml) => dedup.removed = 0

\* C3: a completed run leaves, in every final cluster of more than one
\* detection, exactly one member active and that member's row as it was,
\* every other member inactive with duplicate_of_id the survivor's id; and
\* every row outside those clusters as it was.
C3_Run ==
  /\ dedup'.calls = dedup.calls + 1
  /\ dedup'.status = "completed"

C3_Clustered == UNION {Range(dedup'.clusters[k]) :
                         k \in {j \in 1..Len(dedup'.clusters) : Len(dedup'.clusters[j]) > 1}}

C3_OneSurvivor ==
  [][C3_Run =>
       /\ Len(dets') = Len(dets)
       /\ \A k \in 1..Len(dedup'.clusters) :
            Len(dedup'.clusters[k]) > 1 =>
              LET C == Range(dedup'.clusters[k])
                  S == {i \in C : dets'[i].is_active}
              IN /\ Cardinality(S) = 1
                 /\ \A s \in S :
                      /\ dets'[s] = dets[s]
                      /\ \A m \in C \ {s} :
                           /\ ~dets'[m].is_active
                           /\ dets'[m].detection_metadata.duplicate_of_id = s
       /\ \A i \in 1..Len(dets) : i \notin C3_Clustered => dets'[i] = dets[i]]_vars

\* a completed run that deactivated duplicates in a cluster and left an
\* active detection outside every cluster
C3_Witness ==
  /\ dedup.status = "completed"
  /\ dedup.removed >= 2
  /\ \E k \in 1..Len(dedup.clusters) : Len(dedup.clusters[k]) >= 3
  /\ \E i \in Range(dedup.snapshot) :
       /\ i \notin Members(dedup.clusters)
       /\ dets[i].is_active

(***************************************************************************)
(* Properties of the detections table (SpecDetections)                     *)
(***************************************************************************)
\* C4: no two active detections have the same domain string.
C4_UniqueActiveDomain ==
  \A i, j \in 1..Len(dets) :
    (i < j /\ dets[i].is_active /\ dets[j].is_active)
      => dets[i].phishing_domain # dets[j].phishing_domain

\* C11: a detection on which deduplication recorded duplicate_of_id is, after
\* every step (monitoring check or deduplication run), inactive and still
\* carries the same duplicate_of_id.
C11_BackReferenceKept ==
  [][\A i \in 1..Len(dets) :
       dets[i].detection_metadata.duplicate_of_id # 0
         => /\ ~dets'[i].is_active
            /\ dets'[i].detection_metadata.duplicate_of_id
                 = dets[i].detection_metadata.duplicate_of_id]_vars

(***************************************************************************)
(* Properties of the monitoring scheduler (Spec)                           *)
(***************************************************************************)
\* worker w starts a sweep in this step and its selection did not raise
SweepSelected(w) ==
  /\ tasks[w].pc \in {"idle", "done"}
  /\ tasks'[w] # tasks[w]
  /\ tasks'[w].kind = "sweep"
  /\ tasks'[w].status # "failed"
  /\ tasks'[w].pc \in {"loop", "done"}

\* C5: the selection of a sweep holds a schedule if and only if the schedule
\* is active, its next_check is not later than now and its end_date is later
\* than now.
C5_DueSelection ==
  [][\A w \in Workers :
       SweepSelected(w) =>
         \A i \in 1..Len(scheds) :
           (i \in Range(tasks'[w].selected))
             <=> (/\ scheds[i].is_active = TRUE
                  /\ scheds[i].next_check <= now
                  /\ scheds[i].end_date > now)]_vars

\* a sweep has just selected a due schedule and left out an active schedule
\* whose end_date has passed although its next_check has come
C5_Witness ==
  \E w \in Workers :
    /\ tasks[w].kind = "sweep" /\ tasks[w].pc = "loop"
    /\ tasks[w].idx = 1 /\ tasks[w].results = <<>>
    /\ \E i, j \in 1..Len(scheds) :
         /\ i \in Range(tasks[w].selected)
         /\ scheds[i].next_check <= now /\ scheds[i].end_date > now
         /\ j \notin Range(tasks[w].selected)
         /\ scheds[j].is_active
         /\ scheds[j].next_check <= now /\ scheds[j].end_date <= now

\* the check of worker w returns in this step
CheckReturned(w) == Len(tasks'[w].results) = Len(tasks[w].results) + 1

LastResult(w) == tasks'[w].results[Len(tasks'[w].results)]

\* C6: a check that returns an error leaves the schedule rows and the
\* detection rows as they were, and no step replaces the stored analysis of
\* a detection by the result of a content fetch that failed or timed out.
C6_FailedCheckLeavesState ==
  [][/\ \A w \in Workers :
          (CheckReturned(w) /\ LastResult(w).status = "error")
            => (scheds' = scheds /\ dets' = dets)
     /\ \A i \in 1..Len(dets) :
          (i <= Len(dets') /\ dets'[i].detection_metadata # dets[i].detection_metadata)
            => ~dets'[i].detection_metadata.fetch_failed]_vars

\* C7: a sweep ends only with the result 'completed' and after a check was
\* attempted, in order, for every schedule it selected; while it runs, the
\* checks attempted are those of the schedules before its position.
C7_Attempted(t) ==
  /\ Len(t.results) = Len(t.selected)
  /\ \A k \in 1..Len(t.selected) : t.results[k].sid = t.selected[k]

C7_SweepAttemptsAll ==
  [][\A w \in Workers :
       (tasks[w].kind = "sweep" /\ tasks[w].pc \in {"loop", "check"} /\ tasks'[w] # tasks[w])
         => \/ /\ tasks'[w].pc \in {"loop", "check"}
               /\ tasks'[w].kind = "sweep"
               /\ tasks'[w].selected = tasks[w].selected
               /\ Len(tasks'[w].results) = tasks'[w].idx - 1
            \/ /\ tasks'[w].pc = "done"
               /\ tasks'[w].status = "completed"
               /\ tasks'[w].monitored_domains = Len(tasks[w].selected)
               /\ C7_Attempted(tasks[w])]_vars

\* a sweep of two schedules whose first check returned an error and whose
\* second check was attempted and succeeded
C7_Witness ==
  \E w \in Workers :
    /\ tasks[w].kind = "sweep" /\ tasks[w].pc = "loop"
    /\ Len(tasks[w].selected) = 2
    /\ tasks[w].idx > Len(tasks[w].selected)
    /\ Len(tasks[w].results) = 2
    /\ tasks[w].results[1].status = "error"
    /\ tasks[w].results[2].status = "success"

\* C8: a schedule row that is inactive stays inactive in every step.
C8_InactiveStaysInactive ==
  [][\A i \in 1..Len(scheds) :
       ~scheds[i].is_active => (i <= Len(scheds') /\ ~scheds'[i].is_active)]_vars

\* a schedule is inactive after time has passed, a sweep has run its checks
\* and a manual check found no active schedule for its domain
C8_Witness ==
  /\ now > 0
  /\ \E i \in 1..Len(scheds) : ~scheds[i].is_active
  /\ \E w, v \in Workers :
       /\ tasks[w].kind = "sweep" /\ tasks[w].pc = "done"
       /\ tasks[w].monitored_domains >= 1
       /\ tasks[v].kind = "manual" /\ tasks[v].pc = "done"
       /\ tasks[v].status = "http_error"

C10_NoConcurrentCheck ==
  \A w, v \in Workers :
    (w # v /\ tasks[w].kind = "sweep" /\ tasks[w].pc = "check" /\ tasks[v].pc = "check")
      => CurrentSid(w) # CurrentSid(v)

(***************************************************************************)
(* domain_generator.py: DomainVariationGenerator                           *)
(***************************************************************************)
\* the list literal as Python reads it (adjacent string literals are
\* concatenated), one element per entry
COMMON_TLDS ==
  <<
    "com", "net", "org", "info", "biz", "name", "pro", "mobi", "tel",
    "asia", "xxx", "travel", "jobs", "coop", "aero", "cat", "museum",
    "post", "xyz", "top", "site", "online", "club", "shop", "store",
    "tech", "app", "blog", "news", "media", "email", "web", "website",
    "space", "live", "studio", "digital", "network", "systems",
    "solutions", "services", "company", "business", "enterprises",
    "management", "consulting", "marketing", "technology", "software",
    "cloud", "hosting", "domains", "games", "play", "casino", "bet",
    "poker", "racing", "sport", "fitness", "health", "care", "dental",
    "clinic", "surgery", "hospital", "pharmacy", "education", "academy",
    "training", "university", "college", "school", "finance", "bank",
    "credit", "loan", "money", "cash", "capital", "invest", "insurance",
    "financial", "accountant", "tax", "fund", "trading", "food",
    "restaurant", "bar", "cafe", "menu", "recipes", "cooking", "fashion",
    "clothing", "shoes", "jewelry", "beauty", "boutique", "realestate",
    "property", "homes", "house", "apartments", "rentals", "travel",
    "hotel", "flights", "tours", "vacation", "cruise", "tickets", "auto",
    "car", "cars", "bike", "motorcycles", "parts", "repair", "photo",
    "photography", "pics", "pictures", "gallery", "camera", "video",
    "film", "movie", "tv", "audio", "music", "band", "radio", "art",
    "design", "graphics", "creative", "artist", "gallery", "social",
    "community", "forum", "chat", "dating", "singles", "wedding", "legal",
    "lawyer", "attorney", "law", "attorney", "claims", "construction",
    "builders", "contractors", "plumbing", "electrical", "security",
    "protection", "safety", "alarm", "defense", "pizza", "wine", "beer",
    "vodka", "coffee", "tea", "black", "blue", "green", "pink", "red",
    "gold", "silver", "one", "plus", "best", "new", "now", "today",
    "world", "global", "life", "love", "fun", "cool", "vip", "guru",
    "ninja", "expert", "click", "link", "download", "stream", "watch",
    "buy", "sale", "discount", "deals", "coupons", "promo", "offers", "in",
    "us", "uk", "ca", "au", "de", "fr", "it", "es", "nl", "be", "ch", "at",
    "se", "no", "dk", "fi", "pl", "cz", "hu", "ro", "bg", "gr", "pt", "ie",
    "ru", "ua", "by", "kz", "uz", "am", "az", "ge", "md", "tj", "tm", "cn",
    "jp", "kr", "tw", "hk", "sg", "my", "th", "vn", "ph", "id", "pk", "bd",
    "lk", "np", "bt", "mv", "af", "ir", "iq", "il", "sa", "ae", "qa", "kw",
    "bh", "om", "ye", "jo", "lb", "sy", "tr", "eg", "ma", "dz", "tn", "ly",
    "sd", "et", "ke", "tz", "ug", "za", "ng", "gh", "ci", "sn", "cm", "ao",
    "mz", "zw", "na", "bw", "zm", "br", "mx", "ar", "cl", "co", "pe", "ve",
    "ec", "bo", "py", "uy", "cr", "pa", "gt", "hn", "sv", "ni", "do", "cu",
    "jm", "ht", "tt", "nz", "fj", "pg", "nc", "pf", "ck", "ws", "to", "tv",
    "nu", "tkio", "co", "me", "ai", "gg", "im", "je", "ac", "sh", "cx",
    "cc", "ws", "bz", "ag", "sc", "mn", "la", "fm", "am", "cd", "dj", "to",
    "tk", "ml", "ga", "cf", "gq", "pw", "vu", "sb", "ki", "nr", "gl", "fo",
    "aw", "eu", "asia", "africa", "lat", "arab", "design", "dev", "run",
    "codes", "work", "agency", "directory", "support", "help", "guide",
    "center", "wiki", "tips", "zone", "today", "reviews", "feedback",
    "press", "report", "events", "foundation", "institute", "center",
    "international", "group"
  >>

\* character -> replacement strings; a character outside the printable ASCII
\* range is written U+ and its code point
CHAR_SUBSTITUTIONS ==
  "a" :> <<<<"@">>, <<"4">>, <<"q">>>> @@
  "b" :> <<<<"8">>, <<"d">>, <<"p">>>> @@
  "c" :> <<<<"e">>, <<"(">>>> @@
  "d" :> <<<<"b">>, <<"c", "l">>>> @@
  "e" :> <<<<"3">>, <<"c">>>> @@
  "f" :> <<<<"t">>>> @@
  "g" :> <<<<"9">>, <<"q">>>> @@
  "h" :> <<<<"n">>>> @@
  "i" :> <<<<"1">>, <<"l">>, <<"!">>, <<"j">>>> @@
  "j" :> <<<<"i">>>> @@
  "k" :> <<<<"x">>>> @@
  "l" :> <<<<"1">>, <<"i">>, <<"|">>>> @@
  "m" :> <<<<"n">>, <<"r", "n">>>> @@
  "n" :> <<<<"m">>, <<"h">>>> @@
  "o" :> <<<<"0">>, <<"q">>>> @@
  "p" :> <<<<"b">>, <<"d">>>> @@
  "q" :> <<<<"g">>, <<"o">>>> @@
  "r" :> <<<<"n">>>> @@
  "s" :> <<<<"5">>, <<"$">>, <<"z">>>> @@
  "t" :> <<<<"f">>, <<"+">>>> @@
  "u" :> <<<<"v">>, <<"w">>>> @@
  "v" :> <<<<"u">>, <<"w">>>> @@
  "w" :> <<<<"v", "v">>, <<"u">>>> @@
  "x" :> <<<<"k">>>> @@
  "y" :> <<<<"v">>>> @@
  "z" :> <<<<"s">>, <<"2">>>>

\* IDN_HOMOGRAPHS
IDN_HOMOGRAPHS ==
  "a" :> <<<<"U+0430">>, <<"U+0251">>, <<"U+03B1">>, <<"U+0430">>>> @@
  "b" :> <<<<"U+042C">>, <<"U+044C">>, <<"U+0184">>, <<"U+0185">>>> @@
  "c" :> <<<<"U+0441">>, <<"U+03F2">>, <<"U+03F9">>, <<"U+217D">>>> @@
  "d" :> <<<<"U+0501">>, <<"U+217E">>, <<"U+2146">>, <<"U+2145">>>> @@
  "e" :> <<<<"U+0435">>, <<"U+0435">>, <<"U+03B5">>, <<"U+03B5">>>> @@
  "f" :> <<<<"U+03DC">>, <<"U+03DD">>, <<"U+0192">>, <<"U+017F">>>> @@
  "g" :> <<<<"U+0261">>, <<"U+0581">>, <<"U+0581">>, <<"U+0581">>>> @@
  "h" :> <<<<"U+04BB">>, <<"U+0570">>, <<"U+0570">>, <<"U+0570">>>> @@
  "i" :> <<<<"U+0456">>, <<"U+0456">>, <<"U+03B9">>, <<"U+03B9">>>> @@
  "j" :> <<<<"U+0458">>, <<"U+0458">>, <<"U+03F3">>, <<"U+03F3">>>> @@
  "k" :> <<<<"U+043A">>, <<"U+043A">>, <<"U+03BA">>, <<"U+03BA">>>> @@
  "l" :> <<<<"l">>, <<"l">>, <<"U+03B9">>, <<"U+03B9">>>> @@
  "m" :> <<<<"U+043C">>, <<"U+043C">>, <<"U+03BC">>, <<"U+03BC">>>> @@
  "n" :> <<<<"U+043F">>, <<"U+043F">>, <<"U+03B7">>, <<"U+03B7">>>> @@
  "o" :> <<<<"U+043E">>, <<"U+043E">>, <<"U+03BF">>, <<"U+03BF">>>> @@
  "p" :> <<<<"U+0440">>, <<"U+0440">>, <<"U+03C1">>, <<"U+03C1">>>> @@
  "q" :> <<<<"U+051B">>, <<"U+051B">>, <<"U+051B">>, <<"U+051B">>>> @@
  "r" :> <<<<"U+0433">>, <<"U+0433">>, <<"U+0433">>, <<"U+0433">>>> @@
  "s" :> <<<<"U+0455">>, <<"U+0455">>, <<"U+0455">>, <<"U+0455">>>> @@
  "t" :> <<<<"U+0442">>, <<"U+0442">>, <<"U+03C4">>, <<"U+03C4">>>> @@
  "u" :> <<<<"U+03C5">>, <<"U+03C5">>, <<"U+03C5">>, <<"U+03C5">>>> @@
  "v" :> <<<<"U+03BD">>, <<"U+03BD">>, <<"U+03BD">>, <<"U+03BD">>>> @@
  "w" :> <<<<"U+03C9">>, <<"U+03C9">>, <<"U+03C9">>, <<"U+03C9">>>> @@
  "x" :> <<<<"U+0445">>, <<"U+0445">>, <<"U+03C7">>, <<"U+03C7">>>> @@
  "y" :> <<<<"U+0443">>, <<"U+0443">>, <<"U+03B3">>, <<"U+03B3">>>> @@
  "z" :> <<<<"z">>, <<"z">>, <<"z">>, <<"z">>>>

\* KEYBOARD_PROXIMITY
KEYBOARD_PROXIMITY ==
  "a" :> <<<<"s">>, <<"q">>, <<"w">>, <<"z">>>> @@
  "b" :> <<<<"v">>, <<"g">>, <<"h">>, <<"n">>>> @@
  "c" :> <<<<"x">>, <<"d">>, <<"f">>, <<"v">>>> @@
  "d" :> <<<<"s">>, <<"e">>, <<"r">>, <<"f">>, <<"c">>, <<"x">>>> @@
  "e" :> <<<<"w">>, <<"r">>, <<"d">>, <<"s">>>> @@
  "f" :> <<<<"d">>, <<"r">>, <<"t">>, <<"g">>, <<"v">>, <<"c">>>> @@
  "g" :> <<<<"f">>, <<"t">>, <<"y">>, <<"h">>, <<"b">>, <<"v">>>> @@
  "h" :> <<<<"g">>, <<"y">>, <<"u">>, <<"j">>, <<"n">>, <<"b">>>> @@
  "i" :> <<<<"u">>, <<"o">>, <<"k">>, <<"j">>>> @@
  "j" :> <<<<"h">>, <<"u">>, <<"i">>, <<"k">>, <<"n">>, <<"m">>>> @@
  "k" :> <<<<"j">>, <<"i">>, <<"o">>, <<"l">>, <<"m">>>> @@
  "l" :> <<<<"k">>, <<"o">>, <<"p">>>> @@
  "m" :> <<<<"n">>, <<"j">>, <<"k">>>> @@
  "n" :> <<<<"b">>, <<"h">>, <<"j">>, <<"m">>>> @@
  "o" :> <<<<"i">>, <<"p">>, <<"l">>, <<"k">>>> @@
  "p" :> <<<<"o">>, <<"l">>>> @@
  "q" :> <<<<"w">>, <<"a">>>> @@
  "r" :> <<<<"e">>, <<"t">>, <<"f">>, <<"d">>>> @@
  "s" :> <<<<"a">>, <<"w">>, <<"e">>, <<"d">>, <<"x">>, <<"z">>>> @@
  "t" :> <<<<"r">>, <<"y">>, <<"g">>, <<"f">>>> @@
  "u" :> <<<<"y">>, <<"i">>, <<"j">>, <<"h">>>> @@
  "v" :> <<<<"c">>, <<"f">>, <<"g">>, <<"b">>>> @@
  "w" :> <<<<"q">>, <<"e">>, <<"s">>, <<"a">>>> @@
  "x" :> <<<<"z">>, <<"s">>, <<"d">>, <<"c">>>> @@
  "y" :> <<<<"t">>, <<"u">>, <<"h">>, <<"g">>>> @@
  "z" :> <<<<"a">>, <<"s">>, <<"x">>>>

COMBO_KEYWORDS ==
  <<
    <<"s", "e", "c", "u", "r", "e">>, <<"l", "o", "g", "i", "n">>,
    <<"v", "e", "r", "i", "f", "y">>,
    <<"a", "c", "c", "o", "u", "n", "t">>, <<"a", "u", "t", "h">>,
    <<"u", "s", "e", "r">>, <<"o", "n", "l", "i", "n", "e">>,
    <<"b", "a", "n", "k", "i", "n", "g">>,
    <<"p", "o", "r", "t", "a", "l">>, <<"w", "e", "b">>,
    <<"m", "a", "i", "l">>, <<"s", "e", "r", "v", "i", "c", "e">>,
    <<"s", "u", "p", "p", "o", "r", "t">>, <<"h", "e", "l", "p">>,
    <<"o", "f", "f", "i", "c", "i", "a", "l">>, <<"a", "p", "p">>,
    <<"m", "o", "b", "i", "l", "e">>
  >>

\* HOMOGRAPHS
HOMOGRAPHS ==
  "a" :> <<<<"U+0430">>, <<"U+1EA1">>, <<"U+0103">>, <<"U+0101">>, <<"U+00E0">>, <<"U+00E1">>, <<"U+00E2">>, <<"U+00E3">>, <<"U+00E4">>, <<"U+00E5">>, <<"U+00E6">>>> @@
  "b" :> <<<<"U+042C">>, <<"U+044C">>, <<"U+0183">>, <<"U+0185">>>> @@
  "c" :> <<<<"U+0441">>, <<"U+010B">>, <<"U+00E7">>, <<"U+0107">>, <<"U+010D">>, <<"U+0109">>, <<"U+010B">>, <<"U+0188">>>> @@
  "d" :> <<<<"U+0501">>, <<"U+0111">>, <<"U+010F">>, <<"U+018C">>, <<"U+018A">>>> @@
  "e" :> <<<<"U+0435">>, <<"U+0117">>, <<"U+00E9">>, <<"U+00E8">>, <<"U+00EA">>, <<"U+00EB">>, <<"U+0113">>, <<"U+0115">>, <<"U+0117">>, <<"U+0119">>, <<"U+011B">>, <<"U+018F">>>> @@
  "f" :> <<<<"U+0192">>, <<"U+017F">>>> @@
  "g" :> <<<<"U+0261">>, <<"U+0121">>, <<"U+0123">>, <<"U+011D">>, <<"U+011F">>, <<"U+01E7">>, <<"U+01F5">>, <<"U+0193">>>> @@
  "h" :> <<<<"U+04BB">>, <<"U+0125">>, <<"U+0127">>, <<"U+0195">>>> @@
  "i" :> <<<<"U+0456">>, <<"U+0131">>, <<"U+00ED">>, <<"U+00EC">>, <<"U+00EE">>, <<"U+00EF">>, <<"U+012B">>, <<"U+012D">>, <<"U+012F">>, <<"U+0131">>, <<"U+0197">>>> @@
  "j" :> <<<<"U+0458">>, <<"U+0135">>, <<"U+01F0">>, <<"U+0249">>>> @@
  "k" :> <<<<"U+043A">>, <<"U+0137">>, <<"U+0138">>, <<"U+01E9">>, <<"U+0199">>>> @@
  "l" :> <<<<"l">>, <<"U+013A">>, <<"U+013C">>, <<"U+013E">>, <<"U+0140">>, <<"U+0142">>, <<"U+019A">>>> @@
  "m" :> <<<<"U+043C">>, <<"U+0271">>, <<"U+019C">>>> @@
  "n" :> <<<<"U+043F">>, <<"U+0144">>, <<"U+0146">>, <<"U+0148">>, <<"U+0149">>, <<"U+014B">>, <<"U+019E">>, <<"U+019D">>>> @@
  "o" :> <<<<"U+043E">>, <<"U+1ECD">>, <<"U+00F3">>, <<"U+00F2">>, <<"U+00F4">>, <<"U+00F5">>, <<"U+00F6">>, <<"U+00F8">>, <<"U+014D">>, <<"U+014F">>, <<"U+0151">>, <<"U+019F">>, <<"U+01A0">>>> @@
  "p" :> <<<<"U+0440">>, <<"U+01A5">>, <<"U+01A4">>>> @@
  "q" :> <<<<"U+051B">>, <<"U+024B">>>> @@
  "r" :> <<<<"U+0433">>, <<"U+0155">>, <<"U+0157">>, <<"U+0159">>, <<"U+01A6">>>> @@
  "s" :> <<<<"U+0455">>, <<"U+015B">>, <<"U+015D">>, <<"U+015F">>, <<"U+0161">>, <<"U+01A8">>, <<"U+01A7">>>> @@
  "t" :> <<<<"U+0442">>, <<"U+0165">>, <<"U+0163">>, <<"U+0167">>, <<"U+01AB">>, <<"U+01AC">>>> @@
  "u" :> <<<<"U+03C5">>, <<"U+00FA">>, <<"U+00F9">>, <<"U+00FB">>, <<"U+00FC">>, <<"U+016B">>, <<"U+016D">>, <<"U+016F">>, <<"U+0171">>, <<"U+0173">>, <<"U+01B1">>, <<"U+01B2">>>> @@
  "v" :> <<<<"U+03BD">>, <<"U+0475">>, <<"U+01B2">>>> @@
  "w" :> <<<<"U+03C9">>, <<"U+0175">>, <<"U+019C">>>> @@
  "x" :> <<<<"U+0445">>, <<"U+03C7">>, <<"U+01B5">>>> @@
  "y" :> <<<<"U+0443">>, <<"U+00FD">>, <<"U+00FF">>, <<"U+0177">>, <<"U+01B4">>>> @@
  "z" :> <<<<"U+017A">>, <<"U+017C">>, <<"U+017E">>, <<"U+01B6">>, <<"U+01B5">>>> @@
  "0" :> <<<<"O">>, <<"U+043E">>, <<"U+039F">>, <<"U+03BF">>, <<"U+041E">>, <<"U+043E">>>> @@
  "1" :> <<<<"l">>, <<"I">>, <<"|">>, <<"U+03B9">>, <<"U+0399">>, <<"U+0406">>, <<"U+0456">>>> @@
  "2" :> <<<<"U+01BB">>, <<"U+01A8">>>> @@
  "3" :> <<<<"U+01B7">>, <<"U+01B8">>>> @@
  "4" :> <<<<"U+01BC">>>> @@
  "5" :> <<<<"U+01BD">>, <<"U+01BE">>>> @@
  "6" :> <<<<"U+0185">>>> @@
  "7" :> <<<<"U+01BB">>>> @@
  "8" :> <<<<"U+01B8">>, <<"U+01B9">>>> @@
  "9" :> <<<<"U+01BA">>, <<"U+01BB">>>>

\* A domain string is the sequence of its characters, its public suffix
\* being kept as one element: examplebank.com is
\* <<"e","x","a","m","p","l","e","b","a","n","k",".","com">>. A single label
\* with no public suffix, as localhost, is the sequence of its characters.
DomainVariationGenerator(domain) ==
  LET original_domain == Normalize(domain)
      n == Len(original_domain)
  IN IF n >= 2 /\ original_domain[n - 1] = "."
       THEN [original_domain |-> original_domain,
             \* tldextract.extract of a name with a one-label public suffix
             \* and no subdomain
             domain_name |-> SubSeq(original_domain, 1, n - 2),
             tld         |-> original_domain[n]]
       \* tldextract.extract of a single label without a public suffix: the
       \* label is the domain, the suffix is the empty string
       ELSE [original_domain |-> original_domain,
             domain_name |-> original_domain,
             tld         |-> ""]

_create_variation_dict(domain, variation_type) ==
  [domain |-> domain, type |-> variation_type]

\* f"{variation}.{self.tld}"
FullDomain(variation, tld) == variation \o <<".", tld>>

\* name[:i] + sub + name[i+1:], i counted from 1
ReplaceAt(name, i, sub) ==
  SubSeq(name, 1, i - 1) \o sub \o SubSeq(name, i + 1, Len(name))

_typosquatting_omission(self) ==
  IF Len(self.domain_name) > 3
    THEN [i \in 1..Len(self.domain_name) |->
            _create_variation_dict(
              FullDomain(ReplaceAt(self.domain_name, i, <<>>), self.tld),
              "typosquatting_omission")]
    ELSE <<>>

\* name[:i] + name[i] + name[i:]
Repeated(self, variation_type) ==
  [i \in 1..Len(self.domain_name) |->
     _create_variation_dict(
       FullDomain(ReplaceAt(self.domain_name, i,
                            <<self.domain_name[i], self.domain_name[i]>>), self.tld),
       variation_type)]

_typosquatting_repetition(self) == Repeated(self, "typosquatting_repetition")

_typosquatting_insertion(self) == Repeated(self, "typosquatting_insertion")

\* for each position whose character is a key of table, one variation per
\* replacement in that character's list, or in its first two when first_two
Substituted(self, table, first_two, variation_type) ==
  ConcatAll([i \in 1..Len(self.domain_name) |->
    LET char == self.domain_name[i]
    IN IF char \in DOMAIN table
         THEN LET subs == IF first_two
                            THEN SubSeq(table[char], 1, Min(2, Len(table[char])))
                            ELSE table[char]
              IN [k \in 1..Len(subs) |->
                    _create_variation_dict(
                      FullDomain(ReplaceAt(self.domain_name, i, subs[k]), self.tld),
                      variation_type)]
         ELSE <<>>])

_typosquatting_substitution(self) ==
  Substituted(self, CHAR_SUBSTITUTIONS, FALSE, "typosquatting_substitution")

\* for homograph in homographs[:2]
_idn_homograph_attacks(self) ==
  Substituted(self, IDN_HOMOGRAPHS, TRUE, "idn_homograph")

_homograph_attack(self) ==
  Substituted(self, HOMOGRAPHS, FALSE, "homograph_attack")

\* as Substituted, skipping a replacement equal to the character
_keyboard_proximity(self) ==
  ConcatAll([i \in 1..Len(self.domain_name) |->
    LET char == self.domain_name[i]
        differs(prox_char) == prox_char # <<char>>
    IN IF char \in DOMAIN KEYBOARD_PROXIMITY
         THEN LET prox == SelectSeq(KEYBOARD_PROXIMITY[char], differs)
              IN [k \in 1..Len(prox) |->
                    _create_variation_dict(
                      FullDomain(ReplaceAt(self.domain_name, i, prox[k]), self.tld),
                      "keyboard_proximity")]
         ELSE <<>>])

_combosquatting(self) ==
  ConcatAll([k \in 1..Len(COMBO_KEYWORDS) |->
    LET keyword == COMBO_KEYWORDS[k]
        name    == self.domain_name
    IN << _create_variation_dict(FullDomain(keyword \o <<"-">> \o name, self.tld),
                                 "combosquatting_prefix"),
          _create_variation_dict(FullDomain(keyword \o name, self.tld),
                                 "combosquatting_prefix"),
          _create_variation_dict(FullDomain(name \o <<"-">> \o keyword, self.tld),
                                 "combosquatting_suffix"),
          _create_variation_dict(FullDomain(name \o keyword, self.tld),
                                 "combosquatting_suffix") >>])

_tld_variations(self) ==
  LET other(tld) == tld # self.tld
      tlds == SelectSeq(COMMON_TLDS, other)
  IN [k \in 1..Len(tlds) |->
        _create_variation_dict(FullDomain(self.domain_name, tlds[k]), "tld_variation")]

Subdomains ==
  << <<"s","e","c","u","r","e">>, <<"l","o","g","i","n">>, <<"a","u","t","h">>,
     <<"m","a","i","l">>, <<"w","e","b","m","a","i","l">>, <<"a","d","m","i","n">>,
     <<"p","o","r","t","a","l">>, <<"a","p","p">>, <<"a","p","i">> >>

_subdomain_variations(self) ==
  [k \in 1..Len(Subdomains) |->
     _create_variation_dict(
       FullDomain(Subdomains[k] \o <<".">> \o self.domain_name, self.tld),
       "subdomain_variation")]

\* a loop that appends every variation
KeepDuplicates(variations) == variations

\* the loop over variations with the set seen of domain strings: a variation
\* is appended when no earlier one has its domain string
UniqueVariations(variations) ==
  LET first(k) == \A j \in 1..(k - 1) : variations[j].domain # variations[k].domain
      kept     == SelectSeq([k \in 1..Len(variations) |-> k], first)
  IN [r \in 1..Len(kept) |-> variations[kept[r]]]

\* the concatenation generate_all_variations builds, before deduplication
AllVariations(self) ==
  _typosquatting_omission(self) \o _typosquatting_repetition(self)
    \o _typosquatting_substitution(self) \o _typosquatting_insertion(self)
    \o _idn_homograph_attacks(self) \o _keyboard_proximity(self)
    \o _combosquatting(self) \o _tld_variations(self)
    \o _homograph_attack(self) \o _subdomain_variations(self)

\* the domains the generator is constructed with
GenInputs ==
  << <<"e","x","a","m","p","l","e","b","a","n","k",".","com">>,
     <<" ","S","B","I",".","in">>,
     <<"z","o","o","m",".","us">>,
     <<"l","o","c","a","l","h","o","s","t">> >>

\* unique_variations of generate_all_variations, per input
unique_variations ==
  Tabulate([d \in DOMAIN GenInputs |->
              LET self == DomainVariationGenerator(GenInputs[d])
              IN UniqueVariations(AllVariations(self))])

\* unique_variations[:max_variations], max_variations >= 0
generate_all_variations(d, max_variations) ==
  Slice(unique_variations[d], 1, Min(max_variations, Len(unique_variations[d])) + 1)

MaxVariations == 55

generate_variations_for_domain(d, max_variations) ==
  /\ call' = [fn |-> "generate_all_variations", input |-> d,
              max_variations |-> max_variations,
              result |-> generate_all_variations(d, max_variations)]
  /\ UNCHANGED <<dets, dedup, now, scheds, changeLog, registered, tasks, createLog, processor>>

\* no table rows, no task running, no call made
InitCalls ==
  /\ dets = <<>>
  /\ dedup = NoDedup
  /\ now = 0
  /\ scheds = <<>>
  /\ changeLog = <<>>
  /\ registered = {}
  /\ tasks = [w \in Workers |-> IdleTask]
  /\ createLog = <<>>
  /\ call = NoCall
  /\ processor = NewProcessor

NextGenerator ==
  \E d \in DOMAIN GenInputs, max_variations \in 0..MaxVariations :
    generate_variations_for_domain(d, max_variations)

SpecGenerator == InitCalls /\ [][NextGenerator]_vars

(***************************************************************************)
(* Properties of the variation generator (SpecGenerator)                   *)
(***************************************************************************)
Generated == call.fn = "generate_all_variations"

\* C12: a call with limit max_variations returns at most max_variations
\* candidates, and no two of them have the same domain string.
C12_BoundedNoDuplicates ==
  Generated =>
    /\ Len(call.result) <= call.max_variations
    /\ \A i, j \in 1..Len(call.result) :
         i # j => call.result[i].domain # call.result[j].domain

\* a call whose limit cut the list, two of the generated variations within
\* the limit having had the same domain string
C12_Witness ==
  /\ Generated
  /\ Len(call.result) = call.max_variations
  /\ LET variations == AllVariations(DomainVariationGenerator(GenInputs[call.input]))
     IN \E i, j \in 1..call.max_variations :
          i < j /\ variations[i].domain = variations[j].domain

\* C13: no returned candidate's domain string is the lower-cased input
\* domain.
C13_NeverTheProtectedDomain ==
  Generated =>
    \A i \in 1..Len(call.result) :
      call.result[i].domain
        # DomainVariationGenerator(GenInputs[call.input]).original_domain

\* C14: for examplebank.com and a limit of 50, the result holds
\* exemplebank.com as a substitution candidate and examplebank.net as a
\* TLD variation.
C14_ExampleScenario ==
  (/\ Generated
   /\ GenInputs[call.input] = <<"e","x","a","m","p","l","e","b","a","n","k",".","com">>
   /\ call.max_variations = 50)
    => /\ \E i \in 1..Len(call.result) :
            /\ call.result[i].domain
                 = <<"e","x","e","m","p","l","e","b","a","n","k",".","com">>
            /\ call.result[i].type = "typosquatting_substitution"
       /\ \E i \in 1..Len(call.result) :
            /\ call.result[i].domain
                 = <<"e","x","a","m","p","l","e","b","a","n","k",".","net">>
            /\ call.result[i].type = "tld_variation"

(***************************************************************************)
(* risk_scorer.py: RiskScorer                                              *)
(* A score is kept in whole points and total_score in hundredths of a      *)
(* point: every sub-score below is a whole number and every weight a whole *)
(* number of percent.  An Optional argument is None or Some(value).        *)
(***************************************************************************)
None == <<>>

Some(v) == <<v>>

WEIGHTS ==
  [domain_age |-> 40, visual_similarity |-> 25, content_analysis |-> 15,
   ssl_certificate |-> 10, blacklist_check |-> 10]

RISK_THRESHOLD_HIGH == 75

RISK_THRESHOLD_MEDIUM == 50

_score_domain_age(age_days) ==
  IF age_days = None THEN 50
  ELSE IF age_days[1] < 7 THEN 100
  ELSE IF age_days[1] < 30 THEN 90
  ELSE IF age_days[1] < 90 THEN 70
  ELSE IF age_days[1] < 180 THEN 50
  ELSE IF age_days[1] < 365 THEN 30
  ELSE 10

\* a scoring of the similarity that drops above 80
ScoreVisualSimilarityDropping(similarity) ==
  IF similarity = None THEN 50
  ELSE IF similarity[1] >= 80 THEN 5
  ELSE IF similarity[1] >= 60 THEN 75
  ELSE IF similarity[1] >= 40 THEN 50
  ELSE IF similarity[1] >= 20 THEN 25
  ELSE 10

_score_visual_similarity(similarity) ==
  IF similarity = None THEN 50
  ELSE IF similarity[1] >= 80 THEN 95
  ELSE IF similarity[1] >= 60 THEN 75
  ELSE IF similarity[1] >= 40 THEN 50
  ELSE IF similarity[1] >= 20 THEN 25
  ELSE 10

\* a content score without the cap
ScoreContentUncapped(content_similarity, has_login_form, has_payment_form) ==
  (IF content_similarity # None THEN content_similarity[1] ELSE 100 * 50)
    + (IF has_login_form = Some(TRUE) THEN 100 * 30 ELSE 0)
    + (IF has_payment_form = Some(TRUE) THEN 100 * 40 ELSE 0)

\* The content similarity is a float that the score passes on: it is counted
\* in hundredths of a point, and so is the content score. A form flag that
\* is None or False adds nothing.
_score_content(content_similarity, has_login_form, has_payment_form) ==
  LET score == (IF content_similarity # None THEN content_similarity[1] ELSE 100 * 50)
                 + (IF has_login_form = Some(TRUE) THEN 100 * 30 ELSE 0)
                 + (IF has_payment_form = Some(TRUE) THEN 100 * 40 ELSE 0)
  IN Min(score, 100 * 100)

\* issuer organisations whose lower-cased name contains "let's encrypt" or
\* "cloudflare"
FreeCAs == {"Let's Encrypt", "Cloudflare, Inc."}

\* ssl_info is None, or a dict: kind "empty" is {}, kind "error" a dict with
\* the key 'error', kind "cert" a dict whose issuer organizationName and
\* not_before are None when the key is absent
_score_ssl(ssl_info) ==
  IF ssl_info = None \/ ssl_info[1].kind \in {"empty", "error"} THEN 80
  ELSE Min(20 + (IF /\ ssl_info[1].organizationName # None
                    /\ ssl_info[1].organizationName[1] \in FreeCAs THEN 30 ELSE 0)
              + (IF ssl_info[1].not_before # None THEN 10 ELSE 0), 100)

\* blacklist_results is None, or a dict: with the key 'error', or with the
\* set hits of the lists that report the domain
_score_blacklists(blacklist_results) ==
  IF blacklist_results = None \/ blacklist_results[1].error THEN 0
  ELSE IF blacklist_results[1].hits \cap {"phishtank", "openphish", "urlhaus"} # {}
    THEN 100 ELSE 0

\* score counted in ten-thousandths of a point
_determine_risk_level(score) ==
  IF score >= 100 * 100 * RISK_THRESHOLD_HIGH THEN "HIGH"
  ELSE IF score >= 100 * 100 * RISK_THRESHOLD_MEDIUM THEN "MEDIUM"
  ELSE "LOW"

\* Python's round(number, ndigits) of a number counted in ten-thousandths,
\* ndigits <= 4: the nearest multiple of 10^-ndigits, counted in units of
\* 10^-ndigits; a tie goes to the even neighbour
round(number, ndigits) ==
  LET unit == 10 ^ (4 - ndigits)
      q    == number \div unit
      r    == number % unit
  IN IF 2 * r > unit \/ (2 * r = unit /\ q % 2 = 1) THEN q + 1 ELSE q

\* Sub-scores are whole points, the content score is in hundredths; the
\* weights are in percent, so the weighted sum is in ten-thousandths of a
\* point. The risk level is taken from the sum, the returned total_score and
\* component scores are rounded to two decimals (counted in hundredths).
calculate_risk_score(b) ==
  LET domain_age_score == 100 * _score_domain_age(b.domain_age_days)
      visual_similarity_score == 100 * _score_visual_similarity(b.visual_similarity)
      content_score == _score_content(b.content_similarity, b.has_login_form,
                                      b.has_payment_form)
      ssl_score == 100 * _score_ssl(b.ssl_info)
      blacklist_score == 100 * _score_blacklists(b.blacklist_results)
      total_score == domain_age_score * WEIGHTS.domain_age
                       + visual_similarity_score * WEIGHTS.visual_similarity
                       + content_score * WEIGHTS.content_analysis
                       + ssl_score * WEIGHTS.ssl_certificate
                       + blacklist_score * WEIGHTS.blacklist_check
  IN [total_score |-> round(total_score, 2),
      risk_level  |-> _determine_risk_level(total_score),
      components  |-> [domain_age |-> round(100 * domain_age_score, 2),
                       visual_similarity |-> round(100 * visual_similarity_score, 2),
                       content_analysis |-> round(100 * content_score, 2),
                       ssl_certificate |-> round(100 * ssl_score, 2),
                       blacklist |-> round(100 * blacklist_score, 2)]]

\* the largest similarity, in percent
MaxSimilarity == 100

Optional(S) == {None} \cup {Some(v) : v \in S}

\* visual similarities, in whole percent, on both sides of every step of
\* the scoring
Similarities == {0, 19, 20, 39, 40, 59, 60, 79, 80, MaxSimilarity}

\* content similarities, in hundredths of a percent: 0.0 and 50.0 as
\* detector._analyze_content sets them, 21.65, and the largest
ContentSimilarities == {0, 2165, 100 * 50, 100 * MaxSimilarity}

SslInfos ==
  Optional({[kind |-> "empty", organizationName |-> None, not_before |-> None],
            [kind |-> "error", organizationName |-> None, not_before |-> None]}
           \cup [kind : {"cert"},
                 organizationName : Optional({"Let's Encrypt", "DigiCert Inc"}),
                 not_before : Optional({"Jan  1 00:00:00 2025 GMT"})])

BlacklistResults ==
  Optional({[error |-> TRUE, hits |-> {}]}
           \cup [error : {FALSE},
                 hits : {{}, {"phishtank"}, {"openphish", "urlhaus"}}])

\* the arguments of calculate_risk_score (whois_info is not read)
SignalBundles ==
  [domain_age_days    : Optional({0, 6, 7, 364, 365}),
   visual_similarity  : Optional(Similarities),
   content_similarity : Optional(ContentSimilarities),
   has_login_form     : Optional(BOOLEAN),
   has_payment_form   : Optional(BOOLEAN),
   ssl_info           : SslInfos,
   blacklist_results  : BlacklistResults]

\* one call of calculate_risk_score with the bundle b
RiskCall(b) ==
  /\ call' = [fn |-> "calculate_risk_score", bundle |-> b,
              result |-> calculate_risk_score(b)]
  /\ UNCHANGED <<dets, dedup, now, scheds, changeLog, registered, tasks, createLog, processor>>

\* the first call is made with any bundle, a later one with the bundle of
\* the call before and another visual similarity
NextRisk ==
  \/ /\ call = NoCall
     /\ \E b \in SignalBundles : RiskCall(b)
  \/ /\ call # NoCall
     /\ \E v \in Optional(Similarities) :
          RiskCall([call.bundle EXCEPT !.visual_similarity = v])

SpecRisk == InitCalls /\ [][NextRisk]_vars

(***************************************************************************)
(* Properties of the risk score (SpecRisk)                                 *)
(***************************************************************************)
Scored == call.fn = "calculate_risk_score"

\* C15: total_score is between 0 and 100 (0 and 10000 hundredths) for every
\* bundle whose similarities are in 0..100, any signal possibly missing.
C15_ScoreRange ==
  Scored => (call.result.total_score >= 0 /\ call.result.total_score <= 100 * 100)

\* the bundle with every signal at its riskiest has been scored: a domain
\* registered today, similarities of 100, both forms, no certificate, a
\* blacklist hit; the content sub-score was capped at 100
C15_Witness ==
  /\ Scored
  /\ call.bundle.domain_age_days = Some(0)
  /\ call.bundle.visual_similarity = Some(MaxSimilarity)
  /\ call.bundle.content_similarity = Some(100 * MaxSimilarity)
  /\ call.bundle.has_login_form = Some(TRUE)
  /\ call.bundle.has_payment_form = Some(TRUE)
  /\ call.bundle.ssl_info = None
  /\ call.bundle.blacklist_results # None
  /\ call.result.components.blacklist = 100 * 100
  /\ call.result.components.content_analysis = 100 * 100

\* C16: of two calls whose bundles differ only in visual similarity, the one
\* with the higher visual similarity does not get the lower total_score.
C16_VisualMonotone ==
  [][(/\ Scored
      /\ call'.fn = "calculate_risk_score"
      /\ call'.bundle = [call.bundle EXCEPT !.visual_similarity =
                                              call'.bundle.visual_similarity]
      /\ call.bundle.visual_similarity # None
      /\ call'.bundle.visual_similarity # None
      /\ call'.bundle.visual_similarity[1] >= call.bundle.visual_similarity[1])
       => call'.result.total_score >= call.result.total_score]_vars

\* a bundle with visual similarity 100 has been scored, and higher than the
\* same bundle with visual similarity 0
C16_Witness ==
  /\ Scored
  /\ call.bundle.visual_similarity = Some(MaxSimilarity)
  /\ call.bundle.domain_age_days # None
  /\ call.result.total_score
       > calculate_risk_score([call.bundle EXCEPT !.visual_similarity = Some(0)]).total_score

\* C17: every bundle is scored, and a missing signal gives its factor a
\* sub-score strictly between 0 and 100 points (for the content factor: the content
\* similarity and both form flags missing).
C17_MissingIsNeutral ==
  Scored =>
    LET b == call.bundle
        c == call.result.components
        neutral(x) == 0 < x /\ x < 100 * 100
    IN /\ b.domain_age_days = None => neutral(c.domain_age)
       /\ b.visual_similarity = None => neutral(c.visual_similarity)
       /\ (b.content_similarity = None /\ b.has_login_form = None
             /\ b.has_payment_form = None) => neutral(c.content_analysis)
       /\ b.ssl_info = None => neutral(c.ssl_certificate)
       /\ b.blacklist_results = None => neutral(c.blacklist)

\* C22: the returned risk_level is HIGH exactly when the returned
\* total_score is at least the high threshold, MEDIUM exactly when it is at
\* least the medium threshold and below the high one, LOW otherwise.
C22_TierAgreesWithScore ==
  Scored =>
    LET total_score == call.result.total_score
    IN call.result.risk_level =
         IF total_score >= 100 * RISK_THRESHOLD_HIGH THEN "HIGH"
         ELSE IF total_score >= 100 * RISK_THRESHOLD_MEDIUM THEN "MEDIUM"
         ELSE "LOW"

(***************************************************************************)
(* advanced_deduplication.py: _group_similar_pairs on the pairs that       *)
(* _find_similar_domains can hand it                                       *)
(***************************************************************************)
\* detections 1..MaxIds are compared
MaxIds == 5

\* the (i, j), i < j, in the order of the two loops of _find_similar_domains
AllPairs ==
  ConcatAll([i \in 1..MaxIds |-> [d \in 1..(MaxIds - i) |-> <<i, i + d>>]])

\* similar_pairs when exactly the pairs of linked are above the threshold
similar_pairs(linked) == SelectSeq(AllPairs, LAMBDA p : p \in linked)

\* one call of _group_similar_pairs, the first of the process
GroupCall(linked) ==
  /\ call = NoCall
  /\ call' = [fn |-> "_group_similar_pairs", pairs |-> similar_pairs(linked),
              result |-> _group_similar_pairs(similar_pairs(linked))]
  /\ UNCHANGED <<dets, dedup, now, scheds, changeLog, registered, tasks, createLog, processor>>

NextGroup == \E linked \in SUBSET Range(AllPairs) : GroupCall(linked)

SpecGroup == InitCalls /\ [][NextGroup]_vars

(***************************************************************************)
(* Properties of the fuzzy grouping (SpecGroup)                            *)
(***************************************************************************)
Grouped == call.fn = "_group_similar_pairs"

RECURSIVE Reachable(_, _)
\* the ids a chain of pairs connects to an id of S
Reachable(S, pairs) ==
  LET more == S \cup {p[1] : p \in {q \in Range(pairs) : q[2] \in S}}
                \cup {p[2] : p \in {q \in Range(pairs) : q[1] \in S}}
  IN IF more = S THEN S ELSE Reachable(more, pairs)

\* number of places of the output groups an id occupies
Occurrences(groups, id) ==
  Cardinality({<<g, k>> \in (1..Len(groups)) \X (1..(2 * MaxIds)) :
                 k <= Len(groups[g]) /\ groups[g][k] = id})

\* C18: the call returns (no exception), every detection of a pair is in
\* exactly one output group, and two detections are in the same group
\* exactly when a chain of pairs connects them.
C18_GroupsAreComponents ==
  Grouped =>
    LET groups == call.result.groups
        ids    == UNION {{p[1], p[2]} : p \in Range(call.pairs)}
    IN /\ ~call.result.raised
       /\ \A a \in ids : Occurrences(groups, a) = 1
       /\ \A a, b \in ids :
            (\E g \in 1..Len(groups) : {a, b} \subseteq Range(groups[g]))
              <=> b \in Reachable({a}, call.pairs)

(***************************************************************************)
(* Properties of the check cycle (Spec)                                    *)
(***************************************************************************)
\* C19: when the check of a schedule returns 'success' at time now, the
\* stored schedule row has next_check = now + its interval.
C19_NextDueAdvanced ==
  [][\A w \in Workers :
       (CheckReturned(w) /\ LastResult(w).status = "success")
         => scheds'[LastResult(w).sid].next_check
              = now + scheds[LastResult(w).sid].monitoring_interval_hours]_vars

\* md5 of str(sorted(analysis.items())): equal for equal dicts, taken to
\* differ for different ones
_calculate_content_hash(analysis) == <<"md5", analysis>>

\* C20: a check that stores for a detection an analysis whose fingerprint
\* differs from the fingerprint of the analysis stored before appends, in
\* the same step, a content_change row for that domain.
C20_ContentDriftReported ==
  [][\A i \in 1..Len(dets) :
       (/\ i <= Len(dets')
        /\ dets'[i].detection_metadata.kind = "content_analysis"
        /\ _calculate_content_hash(dets'[i].detection_metadata)
             # _calculate_content_hash(dets[i].detection_metadata))
         => \E k \in (Len(changeLog) + 1)..Len(changeLog') :
              /\ changeLog'[k].change_type = "content_change"
              /\ changeLog'[k].domain = dets[i].phishing_domain]_vars

\* C21: in every reachable state, the rows an expiry sweep run at time now
\* leaves (cleanup_expired_monitoring sets scheds to them) hold no schedule
\* that is both active and has end_date <= now, and every schedule with
\* end_date > now keeps its active flag, next_check and end_date.
C21_ExpirySweep ==
  LET swept == cleanup_expired_rows(scheds, now)
  IN /\ Len(swept) = Len(scheds)
     /\ \A i \in 1..Len(scheds) :
          /\ ~(swept[i].is_active /\ swept[i].end_date <= now)
          /\ scheds[i].end_date > now
               => /\ swept[i].is_active = scheds[i].is_active
                  /\ swept[i].next_check = scheds[i].next_check
                  /\ swept[i].end_date = scheds[i].end_date

\* at its end date a schedule is inactive while a schedule that ends later
\* is still active, and no active schedule is past its end date
C21_Witness ==
  /\ \E i, j \in 1..Len(scheds) :
       /\ ~scheds[i].is_active /\ scheds[i].end_date = now
       /\ scheds[j].is_active /\ scheds[j].end_date > now
  /\ \A i \in 1..Len(scheds) : ~(scheds[i].is_active /\ scheds[i].end_date <= now)

(***************************************************************************)
(* Further properties of the variation generator (SpecGenerator)           *)
(***************************************************************************)
\* the generator object of the latest call
CallSelf == DomainVariationGenerator(GenInputs[call.input])

\* the domain strings among the first n returned candidates that have the
\* given type
ReturnedOfType(variation_type, n) ==
  {call.result[k].domain :
     k \in {m \in 1..Min(n, Len(call.result)) : call.result[m].type = variation_type}}

\* C23: for a name of length L > 4 and a limit of at least L, the returned
\* omission candidates are the names with one character position dropped,
\* one for every position; for L <= 4 no omission candidate is returned.
C23_OmissionCandidates ==
  Generated =>
    LET name == CallSelf.domain_name
        L == Len(name)
        dropped == {FullDomain(ReplaceAt(name, i, <<>>), CallSelf.tld) : i \in 1..L}
        omissions == ReturnedOfType("typosquatting_omission", Len(call.result))
    IN /\ L <= 4 => omissions = {}
       /\ (L > 4 /\ call.max_variations >= L) => omissions = dropped

\* a label of the domain string d is empty: d starts or ends with a dot or
\* has two dots in a row (the public suffix, the last element, is checked
\* apart)
EmptyLabel(d) ==
  \/ d[1] = "."
  \/ \E i \in 2..Len(d) : d[i] = "." /\ d[i - 1] = "."

\* C24: no returned candidate has an empty name label or an empty TLD,
\* whatever the input (an input without a public suffix included).
C24_NoMalformedCandidate ==
  Generated =>
    \A k \in 1..Len(call.result) :
      LET d == call.result[k].domain
      IN /\ d[Len(d)] # ""
         /\ ~EmptyLabel(SubSeq(d, 1, Len(d) - 2))

(***************************************************************************)
(* Further properties of the fuzzy grouping (SpecGroup)                    *)
(***************************************************************************)
\* C25: _group_similar_pairs returns normally, whatever the linked pairs: no
\* call ends in an exception.
C25_GroupingReturns == Grouped => ~call.result.raised

(***************************************************************************)
(* Properties of deduplication with arriving detections (SpecArrivals)     *)
(***************************************************************************)
RECURSIVE ReachesActive(_, _)
\* following duplicate_of_id from row i reaches an active row within n steps
ReachesActive(i, n) ==
  LET target == dets[i].detection_metadata.duplicate_of_id
  IN /\ n > 0
     /\ target \in 1..Len(dets)
     /\ (dets[target].is_active \/ ReachesActive(target, n - 1))

\* C26: from every deduplicated (inactive) detection, following
\* duplicate_of_id reaches an active detection: no cycle, and no end at an
\* inactive detection without a back-reference.
C26_BackReferencesReachActive ==
  \A i \in 1..Len(dets) : ~dets[i].is_active => ReachesActive(i, Len(dets))

\* two runs have completed with a detection arriving between them, and a
\* duplicate of the first run refers to a detection that the second run
\* made the duplicate of a third
C26_Witness ==
  /\ dedup.runs = 2
  /\ \E i, j, k \in 1..Len(dets) :
       /\ ~dets[i].is_active /\ dets[i].detection_metadata.duplicate_of_id = j
       /\ ~dets[j].is_active /\ dets[j].detection_metadata.duplicate_of_id = k
       /\ dets[k].is_active
       /\ dets[i].detection_metadata.deduplicated_at
            <= dets[k].detected_at

\* C28: a call of deduplicate_all_detections that raises leaves the stored
\* detections as they were: no active flag differs from before the call.
C28_RaisedRunStoresNothing ==
  [][(dedup'.calls = dedup.calls + 1 /\ dedup'.status = "raised")
       => /\ Len(dets') = Len(dets)
          /\ \A i \in 1..Len(dets) : dets'[i].is_active = dets[i].is_active]_vars

\* a run has raised in the loop over the clusters: the cluster of two stored
\* rows of one variation comes first in the loop, and in the cluster of two
\* screened rows the duplicate has no metadata; all four rows are active
C28_Witness ==
  /\ dedup.status = "raised"
  /\ ~_find_similar_domains(dets, ActiveIds(dets)).raised
  /\ \E i, j, k, l \in 1..Len(dets) :
       /\ i < j /\ j < k /\ k < l
       /\ dets[i].phishing_domain = dets[j].phishing_domain
       /\ dets[i].detection_metadata.kind # "null"
       /\ dets[j].detection_metadata.kind # "null"
       /\ dets[k].phishing_domain = dets[l].phishing_domain
       /\ dets[l].detection_metadata.kind = "null"
       /\ \A r \in {i, j, k, l} : dets[r].is_active

(***************************************************************************)
(* LongTermMonitor.create_monitoring_schedule as a function of its         *)
(* arguments and the time of the call                                      *)
(***************************************************************************)
\* duration_days as the API passes it on (an optional int, not validated):
\* None, zero, one day, the days of the LOW interval and one more, the
\* default, the maximum and more than the maximum
RequestedDurations ==
  {NoDuration, 0, 1, LOW_RISK_MONITORING_INTERVAL \div 24,
   LOW_RISK_MONITORING_INTERVAL \div 24 + 1, DEFAULT_MONITORING_DURATION_DAYS,
   MAX_MONITORING_DURATION_DAYS, MAX_MONITORING_DURATION_DAYS + 1}

\* the three levels and one that is none of them
RequestedRiskLevels == {"HIGH", "MEDIUM", "LOW", "CRITICAL"}

\* one call of LongTermMonitor.create_monitoring_schedule at time now
BuildScheduleCall(duration_days, risk_level) ==
  /\ call' = [fn |-> "create_monitoring_schedule",
              duration_days |-> duration_days, risk_level |-> risk_level,
              result |-> BuildSchedule(1, TheCSE, duration_days, risk_level, now)]
  /\ UNCHANGED <<dets, dedup, now, scheds, changeLog, registered, tasks, createLog, processor>>

NextSchedule ==
  \/ Tick
  \/ \E duration_days \in RequestedDurations, risk_level \in RequestedRiskLevels :
       BuildScheduleCall(duration_days, risk_level)

SpecSchedule == InitCalls /\ [][NextSchedule]_vars

\* C27: every schedule create_monitoring_schedule builds has next_check
\* earlier than end_date, so that some time satisfies the due-selection
\* filter for it while it is active.
C27_DueBeforeExpiry ==
  call.fn = "create_monitoring_schedule" =>
    /\ call.result.next_check < call.result.end_date
    /\ \E t \in call.result.next_check..call.result.end_date : IsDue(call.result, t)

(***************************************************************************)
(* Further properties of the check cycle (Spec)                            *)
(***************************************************************************)
\* worker w is about to call monitor_domain for the schedule at its index
AboutToCheck(w) ==
  tasks[w].pc = "loop" /\ tasks[w].idx <= Len(tasks[w].selected)

\* C29: when a worker starts the check of a schedule (monitor_domain is
\* entered), the stored schedule is active and its end_date is later than
\* now.
C29_CheckOnlyLiveSchedules ==
  [][\A w \in Workers :
       (AboutToCheck(w) /\ tasks'[w] # tasks[w])
         => /\ scheds[CurrentSid(w)].is_active
            /\ scheds[CurrentSid(w)].end_date > now]_vars


(***************************************************************************)
(* The job queue (SpecQueue): requests add jobs and start and stop the     *)
(* processing; every thread that can take a step takes one, and every      *)
(* submitted batch is run by a Celery worker                               *)
(***************************************************************************)
\* a step of worker thread t
QueueStep(t) ==
  WorkerLoop(t) \/ WorkerGet(t) \/ \E delivered \in BOOLEAN : WorkerSubmit(t, delivered)

\* the run of a submitted batch
BatchRun ==
  \E job_ids \in processor.submitted :
    \E analysed \in [Range(job_ids) -> BOOLEAN] :
      process_domain_batch(job_ids, analysed)

NextQueue ==
  \/ \E priority \in Priorities : add_domain_job(priority)
  \/ start_processing
  \/ stop_processing
  \/ \E t \in QueueThreads : WorkerLoop(t)
  \/ \E t \in QueueThreads : WorkerGet(t)
  \/ \E t \in QueueThreads, delivered \in BOOLEAN : WorkerSubmit(t, delivered)
  \/ BatchRun

SpecQueue ==
  /\ InitCalls
  /\ [][NextQueue]_vars
  /\ \A t \in QueueThreads : WF_vars(QueueStep(t))
  /\ WF_vars(BatchRun)

\* job j exists and was added while queue processing was running
AddedWhileRunning(j) ==
  j <= Len(processor.jobs) /\ processor.jobs[j].added_running

\* job j exists and its status is completed or failed
Finished(j) ==
  j <= Len(processor.jobs) /\ processor.jobs[j].status \in {"completed", "failed"}

\* C30: every job added while queue processing is running eventually has
\* status completed or failed, unless the processing is stopped.
C30_AddedJobsFinish ==
  \A j \in 1..MaxJobs :
    AddedWhileRunning(j) ~> (Finished(j) \/ ~processor.is_running)

=============================================================================
